---- MODULE Spec2Model ----
(***************************************************************************)
(* Prospect Miner: the persistent lead state machine and the stage runs    *)
(* (Discover, Collect, Filter, Enrich, Score, Output, Refresh) that act on *)
(* the lead store, the raw-discovery staging table and the runs table.     *)
(*                                                                         *)
(* Text is modelled as sequences of one-character strings, so that         *)
(* canonicalizeName and generateLeadId are computed as the code computes   *)
(* them.  Timestamps are integers read from the clock `now`; the SQL NULL  *)
(* of an integer column is NONE and of a text column is NULL.              *)
(***************************************************************************)
EXTENDS Integers, Sequences, FiniteSets, TLC

\* ------------------------------------------------------------------ bounds
MaxTime == 2
MaxStaged == 2
MaxFailures == 1
DefaultCooldown == 1
CheckInterval == 0
LimitChoices == {1, 2}
BatchSize == 2
ProgressEveryScaled == 2
\* thresholds.outdatedWebsiteDays, in the model's time unit
OutdatedWebsiteAge == 1

\* SQL NULL of a text column that holds an enumeration, and of an integer column
NULL == "null"
NONE == 0 - 1
UNDEFINED == 0 - 2

\* --------------------------------------------------------------- text

UpperSeq == <<"A","B","C","D","E","F","G","H","I","J","K","L","M",
              "N","O","P","Q","R","S","T","U","V","W","X","Y","Z">>
LowerSeq == <<"a","b","c","d","e","f","g","h","i","j","k","l","m",
              "n","o","p","q","r","s","t","u","v","w","x","y","z">>
Digits == {"0","1","2","3","4","5","6","7","8","9"}
Whitespace == {" ", "\t"}

Range(f) == {f[i] : i \in DOMAIN f}

\* String.prototype.toLowerCase on one character
LowerOf == [c \in Range(UpperSeq) |-> LowerSeq[CHOOSE i \in 1..26 : UpperSeq[i] = c]]
LowerChar(c) == IF c \in DOMAIN LowerOf THEN LowerOf[c] ELSE c

toLowerCase(s) == [i \in 1..Len(s) |-> LowerChar(s[i])]

\* the regex class \w
WordChars == Range(UpperSeq) \cup Range(LowerSeq) \cup Digits \cup {"_"}
IsWordChar(c) == c \in WordChars
\* the regex class \s
IsSpaceChar(c) == c \in Whitespace

RECURSIVE trim(_)
trim(s) ==
  IF s = <<>> THEN <<>>
  ELSE IF IsSpaceChar(Head(s)) THEN trim(Tail(s))
  ELSE IF IsSpaceChar(s[Len(s)]) THEN trim(SubSeq(s, 1, Len(s) - 1))
  ELSE s

\* .replace(/[^\w\s]/g, '')
RemoveSpecial(s) == SelectSeq(s, LAMBDA c : IsWordChar(c) \/ IsSpaceChar(c))

\* .replace(/\s+/g, ' ')
RECURSIVE NormalizeWhitespace(_)
NormalizeWhitespace(s) ==
  IF s = <<>> THEN <<>>
  ELSE IF IsSpaceChar(Head(s))
       THEN IF Len(s) > 1 /\ IsSpaceChar(s[2])
            THEN NormalizeWhitespace(Tail(s))
            ELSE <<" ">> \o NormalizeWhitespace(Tail(s))
       ELSE <<Head(s)>> \o NormalizeWhitespace(Tail(s))

SuffixTokens == { <<"l","l","c">>, <<"i","n","c">>, <<"c","o","r","p">>,
                  <<"l","t","d">>, <<"c","o">>,
                  <<"c","o","m","p","a","n","y">>, <<"t","h","e">> }

\* the maximal run of \w characters at the start of s
RECURSIVE FirstWord(_)
FirstWord(s) ==
  IF s = <<>> \/ ~IsWordChar(Head(s)) THEN <<>>
  ELSE <<Head(s)>> \o FirstWord(Tail(s))

\* .replace(/\b(llc|inc|corp|ltd|co|company|the)\b/gi, '')
RECURSIVE RemoveSuffixTokens(_)
RemoveSuffixTokens(s) ==
  IF s = <<>> THEN <<>>
  ELSE IF ~IsWordChar(Head(s)) THEN <<Head(s)>> \o RemoveSuffixTokens(Tail(s))
  ELSE LET w == FirstWord(s)
           rest == SubSeq(s, Len(w) + 1, Len(s))
       IN (IF toLowerCase(w) \in SuffixTokens THEN <<>> ELSE w)
          \o RemoveSuffixTokens(rest)

canonicalizeName(name) ==
  trim(RemoveSuffixTokens(NormalizeWhitespace(RemoveSpecial(toLowerCase(name)))))

\* `x || dflt` on a text value: the empty text and the absent text are falsy
OrElse(x, dflt) == IF x = <<>> THEN dflt ELSE x

\* a key that takes the city as it is written
generateLeadId_CityAsWritten(canonicalName, city, state, country) ==
  trim(toLowerCase(canonicalName)) \o <<"|">> \o
  city \o <<"|">> \o
  trim(toLowerCase(state)) \o <<"|">> \o
  trim(toLowerCase(OrElse(country, <<"u","s">>)))

\* sha256 of the joined components is modelled by the joined text itself
\* (collision-free digest)
generateLeadId(canonicalName, city, state, country) ==
  trim(toLowerCase(canonicalName)) \o <<"|">> \o
  trim(toLowerCase(city)) \o <<"|">> \o
  trim(toLowerCase(state)) \o <<"|">> \o
  trim(toLowerCase(OrElse(country, <<"u","s">>)))

\* ------------------------------------------------------------ configuration
\* config.filters.excludeCategories / excludeKeywords (lower-cased by FilterStage)
excludeCategories == { <<"b","a","r">> }
excludeKeywords == << <<"s","p","a","m">> >>
\* config.filters.rules
filterRules == << [field |-> "state", operator |-> "equals", value |-> <<"Z">>,
                   reason |-> "out_of_geo"] >>
\* config.filters
filters == [rules |-> filterRules, excludeCategories |-> excludeCategories,
            excludeKeywords |-> excludeKeywords]
\* config.scoring.thresholds.minScore, weights and angleWeights (defaults)
minScore == 20
hasEmailWeight == 30
hasPhoneWeight == 20
hasWebsiteWeight == 10
noWebsiteWeight == 25
noOnlineBookingWeight == 20
reviewCountWeight == 15
ratingWeight == 15
lowReviewCount == 10
outdatedWebsiteWeight == 20
lowReviewsWeight == 15
poorRatingsWeight == 15
founderLedWeight == 25
\* a rating is kept in tenths of a star: poorRatingThreshold 3.5 is 35
poorRatingThresholdTenths == 35
\* config.scoring as ScoreStage reads it
scoring ==
  [weights |-> [hasEmail |-> hasEmailWeight, hasPhone |-> hasPhoneWeight,
                hasWebsite |-> hasWebsiteWeight, reviewCount |-> reviewCountWeight,
                rating |-> ratingWeight],
   thresholds |-> [minScore |-> minScore, lowReviewCount |-> lowReviewCount,
                   poorRatingThreshold |-> poorRatingThresholdTenths,
                   outdatedWebsiteDays |-> OutdatedWebsiteAge],
   angleWeights |-> [no_website |-> noWebsiteWeight,
                     outdated_website |-> outdatedWebsiteWeight,
                     low_reviews |-> lowReviewsWeight,
                     poor_ratings |-> poorRatingsWeight,
                     no_online_booking |-> noOnlineBookingWeight,
                     founder_led |-> founderLedWeight]]
\* config.refresh.*
resetExhaustedAngles == FALSE

AngleTypes == {"no_website", "outdated_website", "low_reviews", "poor_ratings",
               "no_online_booking", "founder_led"}
ForwardOrder == <<"new", "collected", "filtered", "enriched", "scored", "output">>
LeadStatuses == Range(ForwardOrder) \cup {"excluded", "cooldown"}

\* ------------------------------------------------------------------ inputs
\* RawBusinessData records a discovery source can yield (the payloads of the
\* staging rows).  An absent text field is the empty text.  Records 1, 2 and 3
\* name the same business; record 3 carries an excluded category.  A rating is
\* in tenths of a star (NONE when the source gives none): record 1 is listed
\* with 2 reviews and a rating of 3.0.  Records 6 to 9 name one business with
\* and without suffix tokens, punctuation and extra blanks; record 10 is
\* record 2 with the city, state and country in another case and spacing.
ProLLC == <<"P","r","o"," ","L","L","C">>
ProLower == <<"p","r","o">>
ProInc == <<"P","R","O",","," ","I","n","c",".">>
Ace == <<"A","c","e">>
City == <<"A">>
Region == <<"T">>
US == <<"U","S">>
Site == <<"w">>
Phone == <<"5">>
Plumber == <<"p">>
ProCoFix == <<"P"," ","C","o"," ","F">>
ProFix == <<"p"," ","f">>
ProFixInc == <<"P",","," "," ","F"," ","I","N","C">>
TheProFix == <<"T","h","e"," ","P"," ","F">>
CityLoose == <<" ","a">>
RegionLoose == <<"t"," ">>

RawInputs ==
  << [name |-> ProLLC, city |-> City, state |-> Region, country |-> <<>>,
      phone |-> <<>>, email |-> <<>>, website |-> <<>>,
      categories |-> {Plumber}, rating |-> 30,
      reviewCount |-> 2],
     [name |-> ProLower, city |-> City, state |-> Region, country |-> US,
      phone |-> Phone, email |-> <<>>, website |-> Site,
      categories |-> {Plumber}, rating |-> NONE,
      reviewCount |-> NONE],
     [name |-> ProInc, city |-> City, state |-> Region, country |-> US,
      phone |-> <<>>, email |-> <<>>, website |-> <<>>,
      categories |-> { <<"B","a","r">> }, rating |-> NONE,
      reviewCount |-> NONE],
     [name |-> Ace, city |-> City, state |-> Region, country |-> US,
      phone |-> <<>>, email |-> <<>>, website |-> Site,
      categories |-> {Plumber}, rating |-> NONE,
      reviewCount |-> NONE],
     [name |-> ProLower, city |-> City, state |-> Region, country |-> US,
      phone |-> <<>>, email |-> <<>>, website |-> Site,
      categories |-> {Plumber}, rating |-> NONE,
      reviewCount |-> NONE],
     [name |-> ProCoFix, city |-> City, state |-> Region, country |-> US,
      phone |-> <<>>, email |-> <<>>, website |-> <<>>,
      categories |-> {Plumber}, rating |-> NONE,
      reviewCount |-> NONE],
     [name |-> ProFix, city |-> City, state |-> Region, country |-> US,
      phone |-> Phone, email |-> <<>>, website |-> <<>>,
      categories |-> {Plumber}, rating |-> NONE,
      reviewCount |-> NONE],
     [name |-> ProFixInc, city |-> City, state |-> Region, country |-> <<>>,
      phone |-> <<>>, email |-> <<>>, website |-> Site,
      categories |-> {}, rating |-> NONE,
      reviewCount |-> NONE],
     [name |-> TheProFix, city |-> CityLoose, state |-> Region, country |-> US,
      phone |-> <<>>, email |-> <<>>, website |-> <<>>,
      categories |-> {Plumber}, rating |-> NONE,
      reviewCount |-> NONE],
     [name |-> ProLower, city |-> CityLoose, state |-> RegionLoose,
      country |-> <<"u","s">>,
      phone |-> <<>>, email |-> <<>>, website |-> <<>>,
      categories |-> {}, rating |-> 47,
      reviewCount |-> 14] >>

\* names of the configured, enabled discovery sources
SourceNames == <<"yelp", "places">>
OneSource == <<"yelp">>

\* ------------------------------------------------------------------- state
VARIABLES
  now,        \* Date.now()
  leads,      \* table leads, in rowid order
  raws,       \* table raw_discoveries, in id order
  run,        \* table runs: the row of the most recent run
  stage,      \* the stage whose runStage is executing, or "idle"
  st,         \* the executing stage object: counters, selected batch, position
  pipe,       \* the pipeline command: options, position in runPipeline, exit code
  limiter     \* a RateLimiter object and the callers suspended in its acquire

vars == <<now, leads, raws, run, stage, st, pipe, limiter>>

\* ------------------------------------------------------------ LeadService
Field(partial, f, dflt) == IF f \in DOMAIN partial THEN partial[f] ELSE dflt

NoEnrichment == [present |-> FALSE, emails |-> <<>>, phones |-> <<>>,
                 hasOnlineBooking |-> FALSE]
EmptyMetadata == [directories |-> <<>>, tags |-> {}]

\* SELECT * FROM leads WHERE lead_id = ?  (first matching row, or none)
HasId(store, leadId) == \E i \in 1..Len(store) : store[i].leadId = leadId
getById(store, leadId) ==
  store[CHOOSE i \in 1..Len(store) :
          /\ store[i].leadId = leadId
          /\ \A j \in 1..(i - 1) : store[j].leadId # leadId]

\* UPDATE leads SET <the columns of changes> WHERE lead_id = ?
UpdateWhere(store, leadId, changes) ==
  [i \in 1..Len(store) |->
     IF store[i].leadId = leadId
     THEN [f \in DOMAIN store[i] |->
             IF f \in DOMAIN changes THEN changes[f] ELSE store[i][f]]
     ELSE store[i]]

\* the row an upsert of an absent lead_id inserts
NewLead(lead, t) ==
  [leadId |-> lead.leadId,
   businessName |-> Field(lead, "businessName", <<>>),
   canonicalName |-> Field(lead, "canonicalName", <<>>),
   city |-> Field(lead, "city", <<>>),
   state |-> Field(lead, "state", <<>>),
   country |-> Field(lead, "country", <<>>),
   phone |-> Field(lead, "phone", <<>>),
   email |-> Field(lead, "email", <<>>),
   website |-> Field(lead, "website", <<>>),
   firstSeenAt |-> t,
   lastSeenAt |-> t,
   excludedReason |-> Field(lead, "excludedReason", NULL),
   cooldownUntil |-> Field(lead, "cooldownUntil", NONE),
   activeAngles |-> Field(lead, "activeAngles", {}),
   exhaustedAngles |-> Field(lead, "exhaustedAngles", {}),
   sourceMetadata |-> Field(lead, "sourceMetadata", EmptyMetadata),
   enrichmentData |-> Field(lead, "enrichmentData", NoEnrichment),
   enrichmentFailures |-> Field(lead, "enrichmentFailures", <<>>),
   score |-> Field(lead, "score", NONE),
   scoreReasons |-> Field(lead, "scoreReasons", <<>>),
   status |-> Field(lead, "status", "new"),
   lastOutputAt |-> Field(lead, "lastOutputAt", NONE),
   createdAt |-> t,
   updatedAt |-> t]

\* a merge that lets the first-seen and creation times follow the update
MergeLead_Restamp(existing, lead, t) ==
  [f \in DOMAIN existing |->
     IF f \in {"lastSeenAt", "updatedAt", "firstSeenAt", "createdAt"} THEN t
     ELSE IF f = "leadId" THEN existing[f]
     ELSE IF f \in DOMAIN lead THEN lead[f]
     ELSE existing[f]]

\* a merge that stores the failure list of the partial lead, empty when the
\* partial lead has none
MergeLead_DropsFailures(existing, lead, t) ==
  [f \in DOMAIN existing |->
     IF f \in {"lastSeenAt", "updatedAt"} THEN t
     ELSE IF f \in {"leadId", "firstSeenAt", "createdAt"} THEN existing[f]
     ELSE IF f = "enrichmentFailures" THEN Field(lead, f, <<>>)
     ELSE IF f \in DOMAIN lead THEN lead[f]
     ELSE existing[f]]

\* { ...existing, ...lead, lastSeenAt: now, updatedAt: now } as the UPDATE
\* statement stores it: first_seen_at and created_at are not in its SET list
MergeLead(existing, lead, t) ==
  [f \in DOMAIN existing |->
     IF f \in {"lastSeenAt", "updatedAt"} THEN t
     ELSE IF f \in {"leadId", "firstSeenAt", "createdAt"} THEN existing[f]
     ELSE IF f \in DOMAIN lead THEN lead[f]
     ELSE existing[f]]

\* an upsert that inserts without looking the lead_id up
upsert_InsertOnly(store, lead, t) == Append(store, NewLead(lead, t))

upsert(store, lead, t) ==
  IF HasId(store, lead.leadId)
  THEN UpdateWhere(store, lead.leadId, MergeLead(getById(store, lead.leadId), lead, t))
  ELSE Append(store, NewLead(lead, t))

\* a status update that leaves updated_at alone
updateStatus_KeepsStamp(store, leadId, status, t) ==
  UpdateWhere(store, leadId, [status |-> status])

updateStatus(store, leadId, status, t) ==
  UpdateWhere(store, leadId, [status |-> status, updatedAt |-> t])

exclude(store, leadId, reason, t) ==
  UpdateWhere(store, leadId,
              [excludedReason |-> reason, status |-> "excluded", updatedAt |-> t])

setCooldown(store, leadId, until, t) ==
  UpdateWhere(store, leadId,
              [cooldownUntil |-> until, status |-> "cooldown", updatedAt |-> t])

updateAngles(store, leadId, activeAngles, exhaustedAngles, t) ==
  UpdateWhere(store, leadId,
              [activeAngles |-> activeAngles, exhaustedAngles |-> exhaustedAngles,
               updatedAt |-> t])

\* an exhaustAngle that leaves the angle in the active list
exhaustAngle_KeepsActive(store, leadId, angle, t) ==
  IF ~HasId(store, leadId) THEN store
  ELSE LET lead == getById(store, leadId)
       IN updateAngles(store, leadId, lead.activeAngles,
                       lead.exhaustedAngles \cup {angle}, t)

exhaustAngle(store, leadId, angle, t) ==
  IF ~HasId(store, leadId) THEN store
  ELSE LET lead == getById(store, leadId)
       IN updateAngles(store, leadId, lead.activeAngles \ {angle},
                       lead.exhaustedAngles \cup {angle}, t)

updateEnrichment(store, leadId, data, t) ==
  UpdateWhere(store, leadId, [enrichmentData |-> data, updatedAt |-> t])

addEnrichmentFailure(store, leadId, failure, t) ==
  IF ~HasId(store, leadId) THEN store
  ELSE LET lead == getById(store, leadId)
       IN UpdateWhere(store, leadId,
                      [enrichmentFailures |-> Append(lead.enrichmentFailures, failure),
                       updatedAt |-> t])

updateScore(store, leadId, score, reasons, t) ==
  UpdateWhere(store, leadId,
              [score |-> score, scoreReasons |-> reasons, updatedAt |-> t])

markOutput(store, leadId, t) ==
  UpdateWhere(store, leadId,
              [status |-> "output", lastOutputAt |-> t, updatedAt |-> t])

\* the argument createFromRaw passes to upsert
RawLeadId(raw) ==
  generateLeadId(canonicalizeName(raw.name), raw.city, raw.state, raw.country)

createFromRawArg(raw, source) ==
  [leadId |-> RawLeadId(raw),
   businessName |-> raw.name,
   canonicalName |-> canonicalizeName(raw.name),
   city |-> raw.city,
   state |-> raw.state,
   country |-> OrElse(raw.country, <<"U","S">>),
   phone |-> raw.phone,
   email |-> raw.email,
   website |-> raw.website,
   sourceMetadata |-> [directories |-> <<source>>, tags |-> raw.categories],
   status |-> "new"]

createFromRaw(store, raw, source, t) == upsert(store, createFromRawArg(raw, source), t)

\* status-gated selection of a stage's leads
statusMap(stageName) ==
  CASE stageName = "collect" -> {"new"}
    [] stageName = "filter" -> {"collected"}
    [] stageName = "enrich" -> {"filtered"}
    [] stageName = "score" -> {"enriched"}
    [] stageName = "output" -> {"scored"}
    [] OTHER -> {}

Take(s, n) == SubSeq(s, 1, IF n < Len(s) THEN n ELSE Len(s))

\* `limit ? ... LIMIT ? : ...`: an absent (or zero) limit selects every row
Limited(rows, lim) == IF lim = 0 THEN rows ELSE Take(rows, lim)

\* a selection that does not look at the exclusion reason
StageEligible_IgnoresExclusion(row, stageName, t) ==
  /\ row.status \in statusMap(stageName)
  /\ (row.cooldownUntil = NONE \/ row.cooldownUntil < t)

\* a selection that does not look at the cooldown window
StageEligible_IgnoresCooldown(row, stageName, t) ==
  /\ row.status \in statusMap(stageName)
  /\ row.excludedReason = NULL

StageEligible(row, stageName, t) ==
  /\ row.status \in statusMap(stageName)
  /\ row.excludedReason = NULL
  /\ (row.cooldownUntil = NONE \/ row.cooldownUntil < t)

getLeadsForStage(store, stageName, lim, t) ==
  Limited(SelectSeq(store, LAMBDA row : StageEligible(row, stageName, t)), lim)

\* A sweep that takes every lead with a cooldown, expired or not.
getExpiredCooldowns_All(store, lim, t) ==
  Limited(SelectSeq(store, LAMBDA row : row.cooldownUntil # NONE), lim)

getExpiredCooldowns(store, lim, t) ==
  Limited(SelectSeq(store, LAMBDA row : row.cooldownUntil # NONE /\ row.cooldownUntil < t),
          lim)

\* ------------------------------------------------- RawDiscoveryService
\* INSERT INTO raw_discoveries, one row per record.  A row holds the index of
\* its payload in RawInputs; ids are handed out in clock order, so discovered_at
\* orders the rows as id does and is not stored.
RECURSIVE addBulk(_, _, _)
addBulk(table, source, records) ==
  IF records = <<>> THEN table
  ELSE addBulk(Append(table, [id |-> Len(table) + 1, source |-> source,
                              rawData |-> Head(records), processed |-> FALSE]),
               source, Tail(records))

Payload(d) == RawInputs[d.rawData]

\* a selection that does not look at the processed flag
getUnprocessed_All(table, lim) == Limited(table, lim)

\* WHERE processed = 0 ORDER BY discovered_at ASC LIMIT ?
getUnprocessed(table, lim) ==
  Limited(SelectSeq(table, LAMBDA d : ~d.processed), lim)

markProcessedBulk(table, ids) ==
  [i \in 1..Len(table) |->
     IF table[i].id \in ids THEN [table[i] EXCEPT !.processed = TRUE] ELSE table[i]]

\* ------------------------------------------------------------- RunService
NoRun == [status |-> "none", errorMessage |-> NULL, leadsProcessed |-> 0, leadsPassed |-> 0,
          leadsFailed |-> 0]

RunStart ==
  [status |-> "running", errorMessage |-> NULL, leadsProcessed |-> 0, leadsPassed |-> 0,
   leadsFailed |-> 0]

\* a complete that stores the status alone
RunComplete_StatusOnly(row, processed, passed, failed) ==
  [row EXCEPT !.status = "completed"]

RunComplete(row, processed, passed, failed) ==
  [row EXCEPT !.status = "completed", !.leadsProcessed = processed,
              !.leadsPassed = passed, !.leadsFailed = failed]

\* a fail that stores no processed count
RunFail_Resets(row, processed) ==
  [row EXCEPT !.status = "failed", !.errorMessage = "error", !.leadsProcessed = 0]

\* a fail that clears the counters it was not given
RunFail_ClearsCounters(row, processed) ==
  [row EXCEPT !.status = "failed", !.errorMessage = "error",
              !.leadsProcessed = processed, !.leadsPassed = 0, !.leadsFailed = 0]

\* leads_processed = COALESCE(?, leads_processed); the other counters are kept
RunFail(row, processed) ==
  [row EXCEPT !.status = "failed", !.errorMessage = "error",
              !.leadsProcessed = processed]

\* UPDATE runs SET completed_at = ?, status = 'cancelled'
RunCancel(row) == [row EXCEPT !.status = "cancelled"]

RunUpdateProgress(row, processed, passed, failed) ==
  [row EXCEPT !.leadsProcessed = processed, !.leadsPassed = passed,
              !.leadsFailed = failed]

\* -------------------------------------------------------------- BaseStage
\* a stage object as constructed: counters at zero, nothing selected
NewStage(lim) ==
  [processed |-> 0, passed |-> 0, failed |-> 0, limit |-> lim,
   batch |-> <<>>, idx |-> 1, seenIds |-> {}, processedIds |-> {},
   sources |-> <<>>, srcIdx |-> 1, dbatch |-> <<>>, total |-> 0,
   phase |-> "none", reset |-> FALSE, errors |-> 0, config |-> scoring,
   filters |-> filters, result |-> <<>>]

StageResult(ok, s) ==
  [success |-> ok, processed |-> s.processed, passed |-> s.passed,
   failed |-> s.failed, errors |-> IF ok THEN s.errors ELSE s.errors + 1]

\* BaseStage.updateProgress
updateProgress(row, s) == RunUpdateProgress(row, s.processed, s.passed, s.failed)

\* a recordError that keeps the message and counts nothing
recordError_NoCount(s) == [s EXCEPT !.errors = @ + 1]

\* BaseStage.recordError: errors.push(message); failed++ (the caller writes
\* the progress); errors is kept as the length of the list
recordError(s) == [s EXCEPT !.failed = @ + 1, !.errors = @ + 1]

\* `if (this.processed % N === 0) this.updateProgress()`
ProgressDue(s) == s.processed % ProgressEveryScaled = 0

Idle == stage = "idle"
Current == st.batch[st.idx]
HasNext == st.idx <= Len(st.batch)

\* one store mutation, as data: the writes a record's processing issues in order
ApplyWrite(store, w, t) ==
  CASE w.op = "upsert" -> upsert(store, w.lead, t)
    [] w.op = "updateStatus" -> updateStatus(store, w.leadId, w.status, t)
    [] w.op = "exclude" -> exclude(store, w.leadId, w.reason, t)
    [] w.op = "setCooldown" -> setCooldown(store, w.leadId, w.until, t)
    [] w.op = "updateAngles" -> updateAngles(store, w.leadId, w.active, w.exhausted, t)
    [] w.op = "updateEnrichment" -> updateEnrichment(store, w.leadId, w.data, t)
    [] w.op = "addEnrichmentFailure" -> addEnrichmentFailure(store, w.leadId, w.failure, t)
    [] w.op = "updateScore" -> updateScore(store, w.leadId, w.score, w.reasons, t)
    [] w.op = "markOutput" -> markOutput(store, w.leadId, t)

\* the store after the first k writes of ws
RECURSIVE ApplyWrites(_, _, _, _)
ApplyWrites(store, ws, k, t) ==
  IF k = 0 \/ ws = <<>> THEN store
  ELSE ApplyWrites(ApplyWrite(store, Head(ws), t), Tail(ws), k - 1, t)

\* ------------------------------------------------------------ RateLimiter
\* the +100ms buffer of acquire, in clock units
WaitBuffer == 1
Callers == {1, 2, 3}
NotWaiting == [wakeAt |-> NONE, oldestTime |-> NONE]

\* new RateLimiter(maxRequests, windowMs): an empty queue.  waiting holds, for
\* each caller suspended in `await sleep(waitTime)`, the time its timer is due
\* and its local oldestTime; requests are the times at which acquire returned
NewLimiter(maxRequests, windowMs) ==
  [maxRequests |-> maxRequests, windowMs |-> windowMs, queue |-> <<>>,
   waiting |-> [c \in Callers |-> NotWaiting], requests |-> <<>>]

\* no RateLimiter is in use
NoLimiter == NewLimiter(1, 1)

\* a retry that takes the slot without looking at the queue again
Retry_Admits(l, c, t) ==
  [l EXCEPT !.queue = Append(@, t), !.requests = Append(@, t),
            !.waiting[c] = NotWaiting]

\* acquire, from its first statement to its return or to its await: entries
\* of the window's age are dropped; with the window full the caller sleeps
\* until the oldest entry has expired, plus the buffer; else its time is pushed
acquire(l, c, t) ==
  LET queue == SelectSeq(l.queue, LAMBDA time : t - time < l.windowMs)
  IN IF Len(queue) >= l.maxRequests
     THEN [l EXCEPT !.queue = queue,
                    !.waiting[c] =
                      [wakeAt |-> t + (l.windowMs - (t - queue[1]) + WaitBuffer),
                       oldestTime |-> queue[1]]]
     ELSE [l EXCEPT !.queue = Append(queue, t), !.requests = Append(@, t),
                    !.waiting[c] = NotWaiting]

\* a retry that never comes: the caller stays suspended
Retry_Sleeps(l, c, t) == l

\* `return this.acquire()` after the sleep
Retry(l, c, t) == acquire(l, c, t)

\* a caller that is not suspended calls acquire
Acquire ==
  /\ \E c \in Callers :
       /\ limiter.waiting[c] = NotWaiting
       /\ limiter' = acquire(limiter, c, now)
  /\ UNCHANGED <<now, leads, raws, run, stage, st, pipe>>

\* the timer of a suspended caller fires, at its due time or later
WakeOf(c) ==
  /\ limiter.waiting[c] # NotWaiting
  /\ now >= limiter.waiting[c].wakeAt
  /\ limiter' = Retry(limiter, c, now)
  /\ UNCHANGED <<now, leads, raws, run, stage, st, pipe>>

Wake == \E c \in Callers : WakeOf(c)

\* the pipeline command before its first invocation
NoPipeline ==
  [status |-> "none", options |-> [skipDiscover |-> FALSE, skipEnrich |-> FALSE, limit |-> 1],
   next |-> 1, awaiting |-> FALSE, log |-> <<>>, exitCode |-> 0]

\* ------------------------------------------------------------------- Init
Init ==
  /\ now = 0
  /\ leads = <<>>
  /\ raws = <<>>
  /\ run = NoRun
  /\ stage = "idle"
  /\ st = NewStage(1)
  /\ pipe = NoPipeline
  /\ limiter = NoLimiter

\* the clock advances; one unit is long against the duration of a stage run,
\* so the clock is read as constant within a run
Tick ==
  /\ Idle
  /\ now < MaxTime
  /\ now' = now + 1
  /\ UNCHANGED <<limiter, pipe, leads, raws, run, stage, st>>

\* runStage up to the call of execute: the run row is inserted
Begin(stageName, s) ==
  /\ Idle
  /\ stage' = stageName
  /\ st' = s
  /\ run' = RunStart

\* ------------------------------------------------------------ DiscoverStage
DiscoverStage(lim, sources) == [NewStage(lim) EXCEPT !.sources = sources]

StartDiscover(lims, configured) ==
  /\ \E lim \in lims : \E sources \in configured :
       Begin("discover", DiscoverStage(lim, sources))
  /\ UNCHANGED <<limiter, pipe, now, leads, raws>>

\* a source loop without the limit check at its head
DiscoverDone_NoLimit == st.srcIdx > Len(st.sources)

\* the source loop is over: no source left, or the limit check at its head
DiscoverDone == st.srcIdx > Len(st.sources) \/ st.total >= st.limit

\* flush of the remaining batch, then on to the next source
DiscoverFlush(s, table) ==
  [s |-> [s EXCEPT !.total = @ + Len(s.dbatch), !.passed = @ + Len(s.dbatch),
                   !.dbatch = <<>>, !.srcIdx = @ + 1],
   table |-> addBulk(table, s.sources[s.srcIdx], s.dbatch)]

\* the handler yields one more record
DiscoverYield(inputs, maxRaw) ==
  /\ stage = "discover"
  /\ ~DiscoverDone
  /\ Len(raws) + Len(st.dbatch) < maxRaw
  /\ \E r \in inputs :
       LET pushed == [st EXCEPT !.dbatch = Append(@, r),
                                !.processed = @ + 1]
           full == Len(pushed.dbatch) >= BatchSize
           staged == IF full
                     THEN [pushed EXCEPT !.total = @ + Len(pushed.dbatch),
                                         !.passed = @ + Len(pushed.dbatch),
                                         !.dbatch = <<>>]
                     ELSE pushed
           table == IF full
                    THEN addBulk(raws, st.sources[st.srcIdx], pushed.dbatch)
                    ELSE raws
           runRow == IF full THEN updateProgress(run, staged) ELSE run
       IN IF staged.total + Len(staged.dbatch) >= staged.limit
          THEN LET f == DiscoverFlush(staged, table)
               IN /\ st' = f.s
                  /\ raws' = f.table
                  /\ run' = runRow
          ELSE /\ st' = staged
               /\ raws' = table
               /\ run' = runRow
  /\ UNCHANGED <<limiter, pipe, now, leads, stage>>

\* the handler's sequence ends
DiscoverSourceEnds ==
  /\ stage = "discover"
  /\ ~DiscoverDone
  /\ LET f == DiscoverFlush(st, raws)
     IN /\ st' = f.s
        /\ raws' = f.table
  /\ UNCHANGED <<limiter, pipe, now, leads, run, stage>>

\* the handler throws: the catch of the source loop records the error
DiscoverSourceThrows ==
  /\ stage = "discover"
  /\ ~DiscoverDone
  /\ LET s == recordError(st)
     IN /\ st' = [s EXCEPT !.srcIdx = @ + 1, !.dbatch = <<>>]
        /\ run' = updateProgress(run, s)
  /\ UNCHANGED <<limiter, pipe, now, leads, raws, stage>>

\* ------------------------------------------------------------- CollectStage
CollectStage(lim) == [NewStage(lim) EXCEPT !.batch = getUnprocessed(raws, lim)]

StartCollect(lims) ==
  /\ \E lim \in lims : Begin("collect", CollectStage(lim))
  /\ UNCHANGED <<limiter, pipe, now, leads, raws>>

\* the writes of collecting discovery d
CollectWrites(d) ==
  << [op |-> "upsert", lead |-> createFromRawArg(Payload(d), d.source)],
     [op |-> "updateStatus", leadId |-> RawLeadId(Payload(d)), status |-> "collected"] >>

\* end of a chunk of batchSize discoveries: mark them processed, write progress
ChunkEnds(s) == s.idx % BatchSize = 0 \/ s.idx = Len(s.batch)

CollectAfter(s) ==
  LET ends == ChunkEnds(st)
  IN /\ st' = [s EXCEPT !.idx = @ + 1,
                        !.processedIds = IF ends THEN {} ELSE s.processedIds]
     /\ raws' = IF ends THEN markProcessedBulk(raws, s.processedIds) ELSE raws
     /\ run' = IF ends THEN updateProgress(run, s) ELSE run

CollectRecord(errs) ==
  /\ stage = "collect"
  /\ HasNext
  /\ LET d == Current
         leadId == RawLeadId(Payload(d))
         ws == CollectWrites(d)
         counted == [st EXCEPT !.processed = @ + 1,
                               !.processedIds = @ \cup {d.id}]
     IN \/ /\ leadId \in st.seenIds
           /\ leads' = leads
           /\ CollectAfter(counted)
        \/ /\ leadId \notin st.seenIds
           /\ leads' = ApplyWrites(leads, ws, Len(ws), now)
           /\ CollectAfter([counted EXCEPT !.seenIds = @ \cup {leadId},
                                           !.passed = @ + 1])
        \/ /\ leadId \notin st.seenIds
           /\ \E k \in errs \cap (0..Len(ws)) : leads' = ApplyWrites(leads, ws, k, now)
           /\ CollectAfter([counted EXCEPT !.seenIds = @ \cup {leadId},
                                           !.failed = @ + 1])
  /\ UNCHANGED <<limiter, pipe, now, stage>>

\* -------------------------------------------------------------- FilterStage
\* String.prototype.includes
IsSubstring(needle, hay) ==
  \E i \in 0..(Len(hay) - Len(needle)) : SubSeq(hay, i + 1, i + Len(needle)) = needle

\* getFieldValue: the value at a field of the lead (absent fields give null)
getFieldValue(lead, field) == IF field \in DOMAIN lead THEN lead[field] ELSE NULL

\* the columns that hold text and the columns that hold numbers: typeof value
\* is 'string' for a text column that is not NULL (NULL reads as <<>>), and
\* 'number' for a number column that is not NULL
TextFields == {"businessName", "canonicalName", "city", "state", "country",
               "phone", "email", "website"}
NumberFields == {"score", "cooldownUntil", "lastOutputAt", "firstSeenAt",
                 "lastSeenAt", "createdAt", "updatedAt"}

\* new RegExp(pattern) throws: of the patterns modelled, literal characters and
\* the opening of a group that is never closed, those with "(" do not compile
RegExpThrows(pattern) == "(" \in Range(pattern)

\* regex.test(value) of a pattern of literal characters
RegExpTest(pattern, value) == IsSubstring(pattern, value)

evaluateRule(lead, rule) ==
  LET value == getFieldValue(lead, rule.field)
      isNull == IF rule.field \in TextFields THEN value = <<>>
                ELSE IF rule.field \in NumberFields THEN value = NONE
                ELSE value = NULL
      isString == rule.field \in TextFields /\ value # <<>>
      isNumber == rule.field \in NumberFields /\ value # NONE
  IN CASE rule.operator = "equals" -> value = rule.value
       [] rule.operator = "not_equals" -> value # rule.value
       [] rule.operator = "contains" ->
            isString /\ IsSubstring(toLowerCase(rule.value), toLowerCase(value))
       [] rule.operator = "not_contains" ->
            isString /\ ~IsSubstring(toLowerCase(rule.value), toLowerCase(value))
       [] rule.operator = "greater_than" -> isNumber /\ value > rule.value
       [] rule.operator = "less_than" -> isNumber /\ value < rule.value
       [] rule.operator = "is_null" -> isNull
       [] rule.operator = "not_null" -> ~isNull
       [] rule.operator = "regex" ->
            IF ~isString THEN FALSE
            ELSE IF RegExpThrows(rule.value) THEN FALSE
            ELSE RegExpTest(rule.value, value)
       [] OTHER -> FALSE

\* first custom rule that matches, in declared order
RECURSIVE FirstRuleReason(_, _)
FirstRuleReason(lead, rules) ==
  IF rules = <<>> THEN NULL
  ELSE IF evaluateRule(lead, Head(rules)) THEN Head(rules).reason
  ELSE FirstRuleReason(lead, Tail(rules))

\* an evaluation that tries the custom rules before the categories and keywords
evaluateLead_RulesFirst(lead, rules, categories, keywords) ==
  IF lead.excludedReason # NULL THEN lead.excludedReason
  ELSE IF FirstRuleReason(lead, rules) # NULL THEN FirstRuleReason(lead, rules)
  ELSE IF \E c \in lead.sourceMetadata.tags : toLowerCase(c) \in categories
       THEN "bad_fit"
  ELSE IF \E i \in 1..Len(keywords) :
            IsSubstring(keywords[i], toLowerCase(lead.businessName))
       THEN "bad_fit"
  ELSE NULL

evaluateLead(lead, rules, categories, keywords) ==
  IF lead.excludedReason # NULL THEN lead.excludedReason
  ELSE IF \E c \in lead.sourceMetadata.tags : toLowerCase(c) \in categories
       THEN "bad_fit"
  ELSE IF \E i \in 1..Len(keywords) :
            IsSubstring(keywords[i], toLowerCase(lead.businessName))
       THEN "bad_fit"
  ELSE FirstRuleReason(lead, rules)

\* the call of evaluateLead in execute: categories and keywords are lower-cased
Evaluate(lead, cfg) ==
  evaluateLead(lead, cfg.rules,
               {toLowerCase(c) : c \in cfg.excludeCategories},
               [i \in 1..Len(cfg.excludeKeywords) |-> toLowerCase(cfg.excludeKeywords[i])])

FilterStage(lim, cfg) ==
  [NewStage(lim) EXCEPT !.filters = cfg,
                        !.batch = getLeadsForStage(leads, "filter", lim, now)]

StartFilter(lims, cfgs) ==
  /\ \E lim \in lims : \E cfg \in cfgs : Begin("filter", FilterStage(lim, cfg))
  /\ UNCHANGED <<limiter, pipe, now, leads, raws>>

\* the loop moves on past one lead: the progress write at the foot of the body
LeadDone(s) ==
  /\ st' = [s EXCEPT !.idx = @ + 1]
  /\ run' = IF ProgressDue(s) THEN updateProgress(run, s) ELSE run

\* the catch of the loop body: recordError writes the progress
LeadFailed(s) ==
  /\ st' = [recordError(s) EXCEPT !.idx = @ + 1]
  /\ run' = updateProgress(run, recordError(s))

FilterWrites(lead, cfg, t) ==
  LET reason == Evaluate(lead, cfg)
  IN IF reason # NULL
     THEN << [op |-> "exclude", leadId |-> lead.leadId, reason |-> reason] >>
     ELSE IF lead.cooldownUntil # NONE /\ lead.cooldownUntil > t
          THEN << >>
          ELSE << [op |-> "updateStatus", leadId |-> lead.leadId, status |-> "filtered"] >>

FilterPasses(lead, cfg, t) ==
  Evaluate(lead, cfg) = NULL /\ ~(lead.cooldownUntil # NONE /\ lead.cooldownUntil > t)

FilterRecord(errs) ==
  /\ stage = "filter"
  /\ HasNext
  /\ LET lead == Current
         ws == FilterWrites(lead, st.filters, now)
         counted == [st EXCEPT !.processed = @ + 1]
     IN \/ /\ leads' = ApplyWrites(leads, ws, Len(ws), now)
           /\ LeadDone(IF FilterPasses(lead, st.filters, now)
                       THEN [counted EXCEPT !.passed = @ + 1]
                       ELSE [counted EXCEPT !.failed = @ + 1])
        \/ /\ \E k \in errs \cap (0..Len(ws)) : leads' = ApplyWrites(leads, ws, k, now)
           /\ LeadFailed(counted)
  /\ UNCHANGED <<limiter, pipe, now, raws, stage>>

\* -------------------------------------------------------------- EnrichStage
\* what scrapeWebsite can come back with: a page, a failed fetch with its
\* failure type, or null after an exception inside the scrape
NoFailure == "none"
ScrapeOutcomes ==
  << [ok |-> TRUE, failureType |-> NoFailure, emails |-> <<>>, phones |-> <<>>,
      hasOnlineBooking |-> TRUE],
     [ok |-> FALSE, failureType |-> "page_not_found", emails |-> <<>>,
      phones |-> <<>>, hasOnlineBooking |-> FALSE],
     [ok |-> TRUE, failureType |-> NoFailure, emails |-> << <<"e">> >>,
      phones |-> <<>>, hasOnlineBooking |-> FALSE],
     [ok |-> FALSE, failureType |-> NoFailure, emails |-> <<>>, phones |-> <<>>,
      hasOnlineBooking |-> FALSE] >>

\* [...new Set([...a, ...b])]
RECURSIVE Union(_, _)
Union(a, b) ==
  IF b = <<>> THEN a
  ELSE IF Head(b) \in Range(a) THEN Union(a, Tail(b))
  ELSE Union(Append(a, Head(b)), Tail(b))

\* the EnrichmentData enrichLead stores
EnrichedData(lead, scraped, o) ==
  LET base == IF lead.enrichmentData.present THEN lead.enrichmentData
              ELSE [NoEnrichment EXCEPT !.present = TRUE]
  IN IF scraped /\ o.ok
     THEN [base EXCEPT !.emails = Union(@, o.emails),
                       !.phones = Union(@, o.phones),
                       !.hasOnlineBooking = @ \/ o.hasOnlineBooking]
     ELSE base

EnrichWrites(lead, o) ==
  LET scraped == lead.website # <<>>
      data == EnrichedData(lead, scraped, o)
  IN (IF scraped /\ ~o.ok /\ o.failureType # NoFailure
      THEN << [op |-> "addEnrichmentFailure", leadId |-> lead.leadId,
               failure |-> o.failureType] >>
      ELSE << >>)
     \o << [op |-> "updateEnrichment", leadId |-> lead.leadId, data |-> data] >>
     \o (IF data.emails # <<>> /\ lead.email = <<>>
         THEN << [op |-> "upsert",
                  lead |-> [leadId |-> lead.leadId, email |-> data.emails[1]]] >>
         ELSE << >>)
     \o (IF data.phones # <<>> /\ lead.phone = <<>>
         THEN << [op |-> "upsert",
                  lead |-> [leadId |-> lead.leadId, phone |-> data.phones[1]]] >>
         ELSE << >>)
     \o << [op |-> "updateStatus", leadId |-> lead.leadId, status |-> "enriched"] >>

EnrichStage(lim) ==
  [NewStage(lim) EXCEPT !.batch = getLeadsForStage(leads, "enrich", lim, now)]

StartEnrich(lims) ==
  /\ \E lim \in lims : Begin("enrich", EnrichStage(lim))
  /\ UNCHANGED <<limiter, pipe, now, leads, raws>>

\* the outcomes to draw from: one (unused) when the lead has no website
OutcomesFor(lead, outcomes) == IF lead.website = <<>> THEN {1} ELSE outcomes

EnrichRecord(outcomes, errs) ==
  /\ stage = "enrich"
  /\ HasNext
  /\ LET lead == Current
         counted == [st EXCEPT !.processed = @ + 1]
         room == Len(lead.enrichmentFailures) < MaxFailures
     IN \E o \in OutcomesFor(lead, outcomes) :
          LET ws == EnrichWrites(lead, ScrapeOutcomes[o])
          IN \/ /\ room \/ ws[1].op # "addEnrichmentFailure"
                /\ leads' = ApplyWrites(leads, ws, Len(ws), now)
                /\ LeadDone([counted EXCEPT !.passed = @ + 1])
             \/ /\ room
                /\ \E k \in errs \cap (0..Len(ws)) :
                     leads' = addEnrichmentFailure(ApplyWrites(leads, ws, k, now),
                                                   lead.leadId, "unknown", now)
                /\ LeadDone([counted EXCEPT !.failed = @ + 1])
  /\ UNCHANGED <<limiter, pipe, now, raws, stage>>

\* --------------------------------------------------------------- ScoreStage
\* isOutdatedWebsite: enrichment data with a last update older than the threshold
isOutdatedWebsite(lead, cfg, t) ==
  /\ lead.enrichmentData.present
  /\ "lastWebsiteUpdate" \in DOMAIN lead.enrichmentData
  /\ t - lead.enrichmentData.lastWebsiteUpdate > cfg.thresholds.outdatedWebsiteDays

\* getReviewCount / getRating: read from sourceMetadata (NONE for null), where
\* createFromRaw stores neither
getReviewCount(lead) == Field(lead.sourceMetadata, "reviewCount", NONE)
getRating(lead) == Field(lead.sourceMetadata, "rating", NONE)

\* isFounderLed: a founder profile, or at most ten employees
isFounderLed(lead) ==
  /\ lead.enrichmentData.present
  /\ \/ Field(lead.enrichmentData, "founderLinkedin", <<>>) # <<>>
     \/ /\ Field(lead.enrichmentData, "employeeCount", 0) # 0
        /\ Field(lead.enrichmentData, "employeeCount", 0) <= 10

\* a normalisation that leaves the value as it is
ClampScore_None(v) == v

\* score = Math.min(100, Math.max(0, v))
ClampScore(v) == IF v > 100 THEN 100 ELSE IF v < 0 THEN 0 ELSE v

\* scoreLead.  The sum is kept in fiftieths, the common unit of reviewCount / 10
\* and (rating / 5) * weight for a rating in tenths; Math.round is the floor of
\* the sum plus one half.
scoreLead(lead, cfg, t) ==
  LET e == lead.enrichmentData
      w == cfg.weights
      th == cfg.thresholds
      aw == cfg.angleWeights
      hasEmail == lead.email # <<>> \/ (e.present /\ e.emails # <<>>)
      hasPhone == lead.phone # <<>> \/ (e.present /\ e.phones # <<>>)
      noSite == lead.website = <<>>
      outdated == ~noSite /\ isOutdatedWebsite(lead, cfg, t)
      noBooking == e.present /\ ~e.hasOnlineBooking
      reviewCount == getReviewCount(lead)
      lowReviews == reviewCount # NONE /\ reviewCount < th.lowReviewCount
      reviewed == reviewCount # NONE /\ ~lowReviews
      rating == getRating(lead)
      poorRating == rating # NONE /\ rating < th.poorRatingThreshold
      rated == rating # NONE /\ ~poorRating
      founder == isFounderLed(lead)
      whole == (IF hasEmail THEN w.hasEmail ELSE 0)
               + (IF hasPhone THEN w.hasPhone ELSE 0)
               + (IF noSite THEN aw.no_website ELSE w.hasWebsite)
               + (IF outdated THEN aw.outdated_website ELSE 0)
               + (IF noBooking THEN aw.no_online_booking ELSE 0)
               + (IF lowReviews THEN aw.low_reviews ELSE 0)
               + (IF poorRating THEN aw.poor_ratings ELSE 0)
               + (IF founder THEN aw.founder_led ELSE 0)
      reviewBonus == IF ~reviewed THEN 0
                     ELSE IF 5 * reviewCount < 50 * w.reviewCount
                          THEN 5 * reviewCount ELSE 50 * w.reviewCount
      ratingBonus == IF rated THEN rating * w.rating ELSE 0
      rounded == (50 * whole + reviewBonus + ratingBonus + 25) \div 50
  IN [score |-> ClampScore(rounded),
      reasons |->
        << IF hasEmail THEN <<"+email_found">> ELSE <<"-no_email">>,
           IF hasPhone THEN <<"+phone_found">> ELSE <<"-no_phone">>,
           IF noSite THEN <<"+no_website_angle">> ELSE <<"+has_website">> >>
        \o (IF outdated THEN << <<"+outdated_website_angle">> >> ELSE << >>)
        \o (IF noBooking THEN << <<"+no_booking_angle">> >> ELSE << >>)
        \o (IF lowReviews THEN << <<"+low_reviews_angle">> >> ELSE << >>)
        \o (IF reviewed THEN << <<"+review_count", reviewCount>> >> ELSE << >>)
        \o (IF poorRating THEN << <<"+poor_rating_angle", rating>> >> ELSE << >>)
        \o (IF rated THEN << <<"+good_rating", rating>> >> ELSE << >>)
        \o (IF founder THEN << <<"+founder_led_angle">> >> ELSE << >>),
      angles |-> (IF noSite THEN {"no_website"} ELSE {})
                 \cup (IF outdated THEN {"outdated_website"} ELSE {})
                 \cup (IF noBooking THEN {"no_online_booking"} ELSE {})
                 \cup (IF lowReviews THEN {"low_reviews"} ELSE {})
                 \cup (IF poorRating THEN {"poor_ratings"} ELSE {})
                 \cup (IF founder THEN {"founder_led"} ELSE {})]

\* a Score stage that discards a lead with no angle left
ScoreOutcome_DiscardsNoAngle(lead, cfg, t) ==
  LET r == scoreLead(lead, cfg, t)
  IN IF r.score < cfg.thresholds.minScore \/ r.angles \ lead.exhaustedAngles = {}
     THEN "bad_fit"
     ELSE "scored"

\* the branch ScoreStage.execute takes for a lead
ScoreOutcome(lead, cfg, t) ==
  LET r == scoreLead(lead, cfg, t)
  IN IF r.score < cfg.thresholds.minScore THEN "bad_fit"
     ELSE IF r.angles \ lead.exhaustedAngles = {} THEN "cooldown"
     ELSE "scored"

ScoreWrites(lead, cfg, t) ==
  LET r == scoreLead(lead, cfg, t)
      activeAngles == r.angles \ lead.exhaustedAngles
  IN CASE ScoreOutcome(lead, cfg, t) = "bad_fit" ->
            << [op |-> "exclude", leadId |-> lead.leadId, reason |-> "bad_fit"] >>
       [] ScoreOutcome(lead, cfg, t) = "cooldown" ->
            << [op |-> "setCooldown", leadId |-> lead.leadId,
                until |-> t + DefaultCooldown] >>
       [] OTHER ->
            << [op |-> "updateScore", leadId |-> lead.leadId, score |-> r.score,
                reasons |-> r.reasons],
               [op |-> "updateAngles", leadId |-> lead.leadId,
                active |-> activeAngles, exhausted |-> lead.exhaustedAngles],
               [op |-> "updateStatus", leadId |-> lead.leadId, status |-> "scored"] >>

ScoreStage(lim, cfg) ==
  [NewStage(lim) EXCEPT !.config = cfg,
                        !.batch = getLeadsForStage(leads, "score", lim, now)]

StartScore(lims, cfgs) ==
  /\ \E lim \in lims : \E cfg \in cfgs : Begin("score", ScoreStage(lim, cfg))
  /\ UNCHANGED <<limiter, pipe, now, leads, raws>>

ScoreRecord(errs) ==
  /\ stage = "score"
  /\ HasNext
  /\ LET lead == Current
         ws == ScoreWrites(lead, st.config, now)
         counted == [st EXCEPT !.processed = @ + 1]
     IN \/ /\ ScoreOutcome(lead, st.config, now) = "scored"
           /\ leads' = ApplyWrites(leads, ws, Len(ws), now)
           /\ LeadDone([counted EXCEPT !.passed = @ + 1])
        \/ /\ ScoreOutcome(lead, st.config, now) # "scored"
           /\ leads' = ApplyWrites(leads, ws, Len(ws), now)
           /\ st' = [counted EXCEPT !.failed = @ + 1, !.idx = @ + 1]
           /\ run' = run
        \/ /\ \E k \in errs \cap (0..Len(ws)) : leads' = ApplyWrites(leads, ws, k, now)
           /\ LeadFailed(counted)
  /\ UNCHANGED <<limiter, pipe, now, raws, stage>>

\* the outreach side marks an angle as used
ExhaustAngle(angles) ==
  /\ Idle
  /\ \E i \in 1..Len(leads) : \E a \in angles :
       /\ a \notin leads[i].exhaustedAngles
       /\ leads' = exhaustAngle(leads, leads[i].leadId, a, now)
  /\ UNCHANGED <<limiter, pipe, now, raws, run, stage, st>>

\* -------------------------------------------------------------- OutputStage
\* allLeads.filter((lead) => (lead.score || 0) >= this.minScore)
OutputSelect(store, lim, min, t) ==
  SelectSeq(getLeadsForStage(store, "output", lim, t),
            LAMBDA row : (IF row.score = NONE THEN 0 ELSE row.score) >= min)

OutputStage(lim, min) ==
  [NewStage(lim) EXCEPT !.batch = OutputSelect(leads, lim, min, now)]

StartOutput(lims, mins) ==
  /\ \E lim \in lims : \E min \in mins : Begin("output", OutputStage(lim, min))
  /\ UNCHANGED <<limiter, pipe, now, leads, raws>>

OutputWrites(lead, t) ==
  << [op |-> "markOutput", leadId |-> lead.leadId],
     [op |-> "setCooldown", leadId |-> lead.leadId, until |-> t + DefaultCooldown] >>

\* the loop of OutputStage has no periodic progress write
OutputRecord(errs) ==
  /\ stage = "output"
  /\ HasNext
  /\ LET lead == Current
         ws == OutputWrites(lead, now)
         counted == [st EXCEPT !.processed = @ + 1]
     IN \/ /\ leads' = ApplyWrites(leads, ws, Len(ws), now)
           /\ st' = [counted EXCEPT !.passed = @ + 1, !.idx = @ + 1]
           /\ run' = run
        \/ /\ \E k \in errs \cap (0..Len(ws)) : leads' = ApplyWrites(leads, ws, k, now)
           /\ LeadFailed(counted)
  /\ UNCHANGED <<limiter, pipe, now, raws, stage>>

\* ------------------------------------------------------------- RefreshStage
\* a sweep that re-enters every lead at filtered
ResumeStatus_Filtered(lead) == "filtered"

\* a sweep that restarts every lead at collected
ResumeStatus_Collected(lead) == "collected"

\* a sweep that leaves the lead's status at cooldown
ResumeStatus_Stays(lead) == "cooldown"

\* processExpiredCooldowns: the status a swept lead resumes at.  rowToLead
\* hands a NULL score on as null (NONE), never as undefined.
ResumeStatus(lead) ==
  LET afterEnrichment == IF lead.enrichmentData.present THEN "enriched"
                         ELSE "collected"
  IN IF lead.score # UNDEFINED THEN "enriched" ELSE afterEnrichment

\* a sweep that resumes the lead and leaves its cooldown_until as stored
SweepWrites_KeepsCooldown(lead, reset) ==
  << [op |-> "updateStatus", leadId |-> lead.leadId, status |-> ResumeStatus(lead)] >>

SweepWrites(lead, reset) ==
  << [op |-> "upsert", lead |-> [leadId |-> lead.leadId, cooldownUntil |-> NONE]] >>
  \o (IF reset
      THEN << [op |-> "updateAngles", leadId |-> lead.leadId, active |-> {},
               exhausted |-> {}] >>
      ELSE << >>)
  \o << [op |-> "updateStatus", leadId |-> lead.leadId, status |-> ResumeStatus(lead)] >>

\* processSignalChanges: status IN ('output', 'cooldown') AND updated_at < cutoff
SignalSelect(store, lim, t) ==
  Take(SelectSeq(store, LAMBDA row : /\ row.status \in {"output", "cooldown"}
                                      /\ row.updatedAt < t - CheckInterval),
       lim)

\* a sweep whose signal check reports a change: the lead is reset for
\* re-processing
SignalWrites_Resets(lead) ==
  << [op |-> "upsert", lead |-> [leadId |-> lead.leadId, cooldownUntil |-> NONE]],
     [op |-> "updateStatus", leadId |-> lead.leadId, status |-> "filtered"] >>

\* checkSignalChanges reports no change: the lead is only touched
SignalWrites(lead) ==
  << [op |-> "upsert", lead |-> [leadId |-> lead.leadId]] >>

StartRefresh(lims, resets) ==
  /\ \E lim \in lims : \E reset \in resets :
       Begin("refresh", [NewStage(lim) EXCEPT
                           !.batch = getExpiredCooldowns(leads, lim, now),
                           !.phase = "cooldown", !.reset = reset])
  /\ UNCHANGED <<limiter, pipe, now, leads, raws>>

RefreshCooldownRecord(errs) ==
  /\ stage = "refresh"
  /\ st.phase = "cooldown"
  /\ HasNext
  /\ LET lead == Current
         ws == SweepWrites(lead, st.reset)
         counted == [st EXCEPT !.processed = @ + 1]
     IN \/ /\ leads' = ApplyWrites(leads, ws, Len(ws), now)
           /\ st' = [counted EXCEPT !.passed = @ + 1, !.idx = @ + 1]
           /\ run' = run
        \/ /\ \E k \in errs \cap (0..Len(ws)) : leads' = ApplyWrites(leads, ws, k, now)
           /\ LeadFailed(counted)
  /\ UNCHANGED <<limiter, pipe, now, raws, stage>>

\* the expired-cooldown sweep is over: the signal-change sweep selects
RefreshSignalSelect ==
  /\ stage = "refresh"
  /\ st.phase = "cooldown"
  /\ ~HasNext
  /\ st' = [st EXCEPT !.phase = "signal", !.idx = 1,
                      !.batch = SignalSelect(leads, st.limit, now)]
  /\ UNCHANGED <<limiter, pipe, now, leads, raws, run, stage>>

RefreshSignalRecord(errs) ==
  /\ stage = "refresh"
  /\ st.phase = "signal"
  /\ HasNext
  /\ LET lead == Current
         ws == SignalWrites(lead)
         counted == [st EXCEPT !.processed = @ + 1]
     IN \/ /\ leads' = ApplyWrites(leads, ws, Len(ws), now)
           /\ st' = [counted EXCEPT !.idx = @ + 1]
           /\ run' = run
        \/ /\ \E k \in errs \cap (0..Len(ws)) : leads' = ApplyWrites(leads, ws, k, now)
           /\ LeadFailed(counted)
  /\ UNCHANGED <<limiter, pipe, now, raws, stage>>

\* --------------------------------------------------------------- runStage
ExecuteReturns ==
  \/ stage = "discover" /\ DiscoverDone
  \/ stage = "refresh" /\ st.phase = "signal" /\ ~HasNext
  \/ stage \notin {"idle", "discover", "refresh"} /\ ~HasNext

\* execute returned: the run is completed with the stage's counters, and
\* runStage returns them
Complete ==
  /\ ExecuteReturns
  /\ run' = RunComplete(run, st.processed, st.passed, st.failed)
  /\ stage' = "idle"
  /\ st' = [NewStage(1) EXCEPT !.result = <<StageResult(TRUE, st)>>]
  /\ UNCHANGED <<limiter, pipe, now, leads, raws>>

\* an exception escapes execute: the catch of runStage fails the run with the
\* message and the processed count, and returns success: false
RunFails ==
  /\ stage # "idle"
  /\ run' = RunFail(run, st.processed)
  /\ stage' = "idle"
  /\ st' = [NewStage(1) EXCEPT !.result = <<StageResult(FALSE, st)>>]
  /\ UNCHANGED <<limiter, pipe, now, leads, raws>>

\* the writes the running stage issues for lead b of its batch, one sequence
\* for each way the record can go
WritesOf(b, stageName, outcomes) ==
  CASE stageName = "filter" -> {FilterWrites(b, st.filters, now)}
    [] stageName = "enrich" ->
         {EnrichWrites(b, ScrapeOutcomes[o]) : o \in OutcomesFor(b, outcomes)}
    [] stageName = "score" -> {ScoreWrites(b, st.config, now)}
    [] stageName = "output" -> {OutputWrites(b, now)}
    [] OTHER -> {}

\* the process is stopped while a record is processed: every statement that
\* ran is saved, no later one runs, and the run row is left as it is
ProcessStops(outcomes) ==
  /\ stage \in {"filter", "enrich", "score", "output"}
  /\ HasNext
  /\ \E ws \in WritesOf(Current, stage, outcomes) : \E k \in 0..Len(ws) :
       /\ \/ Len(Current.enrichmentFailures) < MaxFailures
          \/ ws[1].op # "addEnrichmentFailure"
       /\ leads' = ApplyWrites(leads, ws, k, now)
  /\ stage' = "idle"
  /\ st' = NewStage(1)
  /\ UNCHANGED <<limiter, pipe, now, raws, run>>

\* ------------------------------------------------------- pipeline command
\* the stages runPipeline runs, in the order of its statements
PipelineStages == <<"discover", "collect", "filter", "enrich", "score", "output">>

\* the stage object each command constructs from the stage options
runDiscover(options) == DiscoverStage(options.limit, OneSource)
runCollect(options) == CollectStage(options.limit)
runFilter(options) == FilterStage(options.limit, filters)
runEnrich(options) == EnrichStage(options.limit)
runScore(options) == ScoreStage(options.limit, scoring)
runOutput(options) == OutputStage(options.limit, minScore)

CommandStage(name, options) ==
  CASE name = "discover" -> runDiscover(options)
    [] name = "collect" -> runCollect(options)
    [] name = "filter" -> runFilter(options)
    [] name = "enrich" -> runEnrich(options)
    [] name = "score" -> runScore(options)
    [] name = "output" -> runOutput(options)

\* a command throws when runStage returned success: false, which it does
\* exactly when it failed the run row
CommandThrows_Never(row) == FALSE

CommandThrows(row) == row.status = "failed"

\* the commands discover and filter, as the stage commands are written
MissingCommandThrows(row) == row.status = "failed"

Throws(name, row) ==
  IF name \in {"discover", "filter"} THEN MissingCommandThrows(row)
  ELSE CommandThrows(row)

\* the skip flag of a stage, if it has one
Skipped(name, options) ==
  \/ name = "discover" /\ options.skipDiscover
  \/ name = "enrich" /\ options.skipEnrich

\* the pipeline command is invoked
PipelineStart(lims) ==
  /\ Idle
  /\ pipe.status # "running"
  /\ \E sd \in BOOLEAN : \E se \in BOOLEAN : \E lim \in lims :
       pipe' = [status |-> "running",
                options |-> [skipDiscover |-> sd, skipEnrich |-> se, limit |-> lim],
                next |-> 1, awaiting |-> FALSE, log |-> <<>>, exitCode |-> 0]
  /\ UNCHANGED <<limiter, now, leads, raws, run, stage, st>>

\* runPipeline passes a stage whose skip flag is set
PipelineSkip ==
  /\ pipe.status = "running"
  /\ ~pipe.awaiting
  /\ pipe.next <= Len(PipelineStages)
  /\ Skipped(PipelineStages[pipe.next], pipe.options)
  /\ pipe' = [pipe EXCEPT !.next = @ + 1]
  /\ UNCHANGED <<limiter, now, leads, raws, run, stage, st>>

\* runPipeline logs the banner of its next stage and calls the stage's command
PipelineStage ==
  /\ pipe.status = "running"
  /\ ~pipe.awaiting
  /\ pipe.next <= Len(PipelineStages)
  /\ ~Skipped(PipelineStages[pipe.next], pipe.options)
  /\ Begin(PipelineStages[pipe.next],
           CommandStage(PipelineStages[pipe.next], pipe.options))
  /\ pipe' = [pipe EXCEPT !.awaiting = TRUE,
                          !.log = Append(@, PipelineStages[pipe.next])]
  /\ UNCHANGED <<limiter, now, leads, raws>>

\* the awaited command settles: it throws, and the action's catch exits with
\* code 1, or it returns and runPipeline goes on to its next statement
PipelineStageReturns ==
  /\ pipe.status = "running"
  /\ pipe.awaiting
  /\ Idle
  /\ pipe' = IF Throws(PipelineStages[pipe.next], run)
             THEN [pipe EXCEPT !.status = "failed", !.awaiting = FALSE,
                               !.exitCode = 1]
             ELSE [pipe EXCEPT !.next = @ + 1, !.awaiting = FALSE]
  /\ UNCHANGED <<limiter, now, leads, raws, run, stage, st>>

\* runPipeline returns after its last stage
PipelineDone ==
  /\ pipe.status = "running"
  /\ ~pipe.awaiting
  /\ pipe.next > Len(PipelineStages)
  /\ pipe' = [pipe EXCEPT !.status = "completed"]
  /\ UNCHANGED <<limiter, now, leads, raws, run, stage, st>>

\* ---------------------------------------------------------- specifications
StagingInputs == {1, 2, 4}
AllErrs == 0..9

\* Discover and Collect over two businesses
NextStaging ==
  \/ Tick
  \/ StartDiscover(LimitChoices, {SourceNames})
  \/ DiscoverYield(StagingInputs, MaxStaged)
  \/ DiscoverSourceEnds
  \/ DiscoverSourceThrows
  \/ StartCollect(LimitChoices)
  \/ CollectRecord(AllErrs)
  \/ Complete
  \/ RunFails

SpecStaging == Init /\ [][NextStaging]_vars

\* Discover runs with limits below, at and above the batch size, over one or
\* two sources that yield any number of records or throw
MaxDiscovered == 4
DiscoverLimits == {1, 2, 3}
DiscoverInputs == {1, 2}

NextDiscover ==
  \/ StartDiscover(DiscoverLimits, {SourceNames, OneSource})
  \/ DiscoverYield(DiscoverInputs, MaxDiscovered)
  \/ DiscoverSourceEnds
  \/ DiscoverSourceThrows
  \/ Complete
  \/ RunFails

SpecDiscover == Init /\ [][NextDiscover]_vars

\* the seven stages over one business
PipeInputs == {2, 3, 5}
PipeLimits == {1}
PipeDiscoverLimits == {3}
PipeErrs == {0}
PipeOutcomes == {1, 2}
\* config.refresh.resetExhaustedAngles, as configured (false) and enabled
PipeResets == {resetExhaustedAngles, TRUE}
PipeAngles == {"no_online_booking"}

Next ==
  \/ Tick
  \/ StartDiscover(PipeDiscoverLimits, {OneSource})
  \/ DiscoverYield(PipeInputs, MaxStaged)
  \/ DiscoverSourceEnds
  \/ DiscoverSourceThrows
  \/ StartCollect(PipeLimits)
  \/ CollectRecord(PipeErrs)
  \/ StartFilter(PipeLimits, {filters})
  \/ FilterRecord(PipeErrs)
  \/ StartEnrich(PipeLimits)
  \/ EnrichRecord(PipeOutcomes, PipeErrs)
  \/ StartScore(PipeLimits, {scoring})
  \/ ScoreRecord(PipeErrs)
  \/ ExhaustAngle(PipeAngles)
  \/ StartOutput(PipeLimits, {minScore})
  \/ OutputRecord(PipeErrs)
  \/ StartRefresh(PipeLimits, PipeResets)
  \/ RefreshCooldownRecord(PipeErrs)
  \/ RefreshSignalSelect
  \/ RefreshSignalRecord(PipeErrs)
  \/ Complete
  \/ RunFails

Spec == Init /\ [][Next]_vars

\* the pipeline over a business first listed without a website (record 1) and
\* later with one (record 2)
AngleInputs == {1, 2}

NextAngles ==
  \/ Tick
  \/ StartDiscover(PipeDiscoverLimits, {OneSource})
  \/ DiscoverYield(AngleInputs, MaxStaged)
  \/ DiscoverSourceEnds
  \/ DiscoverSourceThrows
  \/ StartCollect(PipeLimits)
  \/ CollectRecord(PipeErrs)
  \/ StartFilter(PipeLimits, {filters})
  \/ FilterRecord(PipeErrs)
  \/ StartEnrich(PipeLimits)
  \/ EnrichRecord(PipeOutcomes, PipeErrs)
  \/ StartScore(PipeLimits, {scoring})
  \/ ScoreRecord(PipeErrs)
  \/ ExhaustAngle(PipeAngles)
  \/ StartOutput(PipeLimits, {minScore})
  \/ OutputRecord(PipeErrs)
  \/ StartRefresh(PipeLimits, PipeResets)
  \/ RefreshCooldownRecord(PipeErrs)
  \/ RefreshSignalSelect
  \/ RefreshSignalRecord(PipeErrs)
  \/ Complete
  \/ RunFails

SpecAngles == Init /\ [][NextAngles]_vars

\* the pipeline command, invoked again and again over one store
PipelineLimits == {1}

NextPipeline ==
  \/ Tick
  \/ PipelineStart(PipelineLimits)
  \/ PipelineSkip
  \/ PipelineStage
  \/ PipelineStageReturns
  \/ PipelineDone
  \/ DiscoverYield(PipeInputs, MaxStaged)
  \/ DiscoverSourceEnds
  \/ DiscoverSourceThrows
  \/ CollectRecord(PipeErrs)
  \/ FilterRecord(PipeErrs)
  \/ EnrichRecord(PipeOutcomes, PipeErrs)
  \/ ScoreRecord(PipeErrs)
  \/ OutputRecord(PipeErrs)
  \/ Complete
  \/ RunFails

SpecPipeline == Init /\ [][NextPipeline]_vars

\* the six lead stages over two staged businesses, with record-level errors at
\* any write of a record and no error that escapes the stage logic
FailSoftInputs == <<2, 4>>
FailSoftLimits == {2}
FailSoftErrs == {0, 1}

FailSoftInit ==
  /\ now = 0
  /\ leads = <<>>
  /\ raws = addBulk(<<>>, "yelp", FailSoftInputs)
  /\ run = NoRun
  /\ stage = "idle"
  /\ st = NewStage(1)
  /\ pipe = NoPipeline
  /\ limiter = NoLimiter

NextFailSoft ==
  \/ Tick
  \/ StartCollect(FailSoftLimits)
  \/ CollectRecord(FailSoftErrs)
  \/ StartFilter(FailSoftLimits, {filters})
  \/ FilterRecord(FailSoftErrs)
  \/ StartEnrich(FailSoftLimits)
  \/ EnrichRecord(PipeOutcomes, FailSoftErrs)
  \/ StartScore(FailSoftLimits, {scoring})
  \/ ScoreRecord(FailSoftErrs)
  \/ StartOutput(FailSoftLimits, {minScore})
  \/ OutputRecord(FailSoftErrs)
  \/ StartRefresh(FailSoftLimits, {resetExhaustedAngles})
  \/ RefreshCooldownRecord(FailSoftErrs)
  \/ RefreshSignalSelect
  \/ RefreshSignalRecord(FailSoftErrs)
  \/ Complete

SpecFailSoft == FailSoftInit /\ [][NextFailSoft]_vars

\* Collect runs again and again, with a limit of 1 or 2, over three staged
\* discoveries of which the first two are of one business; a record's
\* statements may throw
ConsumeInputs == <<1, 2, 4>>
ConsumeLimits == {1, 2}

ConsumeInit ==
  /\ now = 0
  /\ leads = <<>>
  /\ raws = addBulk(<<>>, "yelp", ConsumeInputs)
  /\ run = NoRun
  /\ stage = "idle"
  /\ st = NewStage(1)
  /\ pipe = NoPipeline
  /\ limiter = NoLimiter

NextConsume ==
  \/ Tick
  \/ StartCollect(ConsumeLimits)
  \/ CollectRecord(FailSoftErrs)
  \/ Complete

\* the collect command is invoked again and again, and a started run runs on:
\* weak fairness of the record loop, written with the loop's own condition
\* (a record is waiting) for its enabledness
ConsumeFairness ==
  /\ SF_vars(StartCollect(ConsumeLimits))
  /\ WF_vars(Complete)
  /\ \/ []<>(~(stage = "collect" /\ HasNext))
     \/ []<><<CollectRecord(FailSoftErrs)>>_vars

SpecConsume == ConsumeInit /\ [][NextConsume]_vars /\ ConsumeFairness

\* Filter, Enrich, Score and Output run again and again with limit 1 over two
\* leads that one Collect run has collected, no record raising an error;
\* Output is run with the option --min-score above the scoring threshold
StarveInputs == <<4, 2>>
OutputMinimum == 40

\* the store after the discoveries of table are collected, in order
RECURSIVE Collected(_, _)
Collected(store, table) ==
  IF table = <<>> THEN store
  ELSE Collected(ApplyWrites(store, CollectWrites(Head(table)), 2, 0), Tail(table))

StarveInit ==
  /\ now = 0
  /\ leads = Collected(<<>>, addBulk(<<>>, "yelp", StarveInputs))
  /\ raws = markProcessedBulk(addBulk(<<>>, "yelp", StarveInputs), {1, 2})
  /\ run = NoRun
  /\ stage = "idle"
  /\ st = NewStage(1)
  /\ pipe = NoPipeline
  /\ limiter = NoLimiter

NextStarve ==
  \/ StartFilter({1}, {filters})
  \/ FilterRecord({})
  \/ StartEnrich({1})
  \/ EnrichRecord(PipeOutcomes, {})
  \/ StartScore({1}, {scoring})
  \/ ScoreRecord({})
  \/ StartOutput({1}, {OutputMinimum})
  \/ OutputRecord({})
  \/ Complete

\* every stage command is invoked again and again, and a started run runs on
StarveFairness ==
  /\ SF_vars(StartFilter({1}, {filters}))
  /\ SF_vars(StartEnrich({1}))
  /\ SF_vars(StartScore({1}, {scoring}))
  /\ SF_vars(StartOutput({1}, {OutputMinimum}))
  /\ WF_vars(\/ FilterRecord({})
             \/ EnrichRecord(PipeOutcomes, {})
             \/ ScoreRecord({})
             \/ OutputRecord({})
             \/ Complete)

SpecStarve == StarveInit /\ [][NextStarve]_vars /\ StarveFairness

\* Filter, Enrich, Score and Output over two collected leads, with runs that
\* fail between two records and a process that is stopped while it works on
\* a record; no record raises an error
StopErrs == {}
StopLimits == {2}

NextStop ==
  \/ StartCollect(StopLimits)
  \/ CollectRecord({})
  \/ StartFilter(StopLimits, {filters})
  \/ FilterRecord(StopErrs)
  \/ StartEnrich(StopLimits)
  \/ EnrichRecord(PipeOutcomes, StopErrs)
  \/ StartScore(StopLimits, {scoring})
  \/ ScoreRecord(StopErrs)
  \/ StartOutput(StopLimits, {minScore})
  \/ OutputRecord(StopErrs)
  \/ Complete
  \/ RunFails
  \/ ProcessStops(PipeOutcomes)

SpecStop == FailSoftInit /\ [][NextStop]_vars

\* one RateLimiter shared by three callers that call acquire at any time
LimiterHorizon == 7
LimiterMax == {1, 2}
LimiterWindows == {2, 3}

LimiterInit ==
  /\ now = 0
  /\ leads = <<>>
  /\ raws = <<>>
  /\ run = NoRun
  /\ stage = "idle"
  /\ st = NewStage(1)
  /\ pipe = NoPipeline
  /\ limiter \in {NewLimiter(m, w) : m \in LimiterMax, w \in LimiterWindows}

LimiterTick ==
  /\ now < LimiterHorizon
  /\ now' = now + 1
  /\ UNCHANGED <<leads, raws, run, stage, st, pipe, limiter>>

NextLimiter == LimiterTick \/ Acquire \/ Wake

SpecLimiter == LimiterInit /\ [][NextLimiter]_vars

\* the callers that are suspended in acquire
Suspended == {c \in Callers : limiter.waiting[c] # NotWaiting}

\* each caller calls acquire once, at any time up to the horizon; the clock
\* runs on for as long as a suspended caller's timer is not due, and timers
\* that are due fire
AcquireOnce ==
  /\ Len(limiter.requests) + Cardinality(Suspended) < Cardinality(Callers)
  /\ Acquire

TimerTick ==
  /\ now < LimiterHorizon \/ \E c \in Suspended : now < limiter.waiting[c].wakeAt
  /\ now' = now + 1
  /\ UNCHANGED <<leads, raws, run, stage, st, pipe, limiter>>

NextTimers == TimerTick \/ AcquireOnce \/ Wake

TimerFairness ==
  /\ WF_vars(TimerTick)
  /\ \A c \in Callers : WF_vars(WakeOf(c))

SpecTimers == LimiterInit /\ [][NextTimers]_vars /\ TimerFairness

\* the store mutations in any order: every mutation of LeadService applied to
\* a lead id, present or not, beside a second lead that is only upserted,
\* under a clock that only advances
MutationIds == {"a"}

MutationWrites ==
  UNION { { [op |-> "upsert", lead |-> [leadId |-> id]],
            [op |-> "upsert",
             lead |-> [leadId |-> id, status |-> "collected", firstSeenAt |-> MaxTime,
                       lastSeenAt |-> 0, createdAt |-> MaxTime, updatedAt |-> 0]],
            [op |-> "updateStatus", leadId |-> id, status |-> "filtered"],
            [op |-> "exclude", leadId |-> id, reason |-> "bad_fit"],
            [op |-> "setCooldown", leadId |-> id, until |-> MaxTime],
            [op |-> "updateAngles", leadId |-> id, active |-> {"no_website"},
             exhausted |-> {}],
            [op |-> "updateEnrichment", leadId |-> id,
             data |-> [NoEnrichment EXCEPT !.present = TRUE]],
            [op |-> "addEnrichmentFailure", leadId |-> id, failure |-> "timeout"],
            [op |-> "updateScore", leadId |-> id, score |-> minScore, reasons |-> <<>>],
            [op |-> "markOutput", leadId |-> id] } : id \in MutationIds }
  \cup { [op |-> "upsert", lead |-> [leadId |-> "b"]] }

WriteId(w) == IF w.op = "upsert" THEN w.lead.leadId ELSE w.leadId

Mutation(ws) ==
  /\ \E w \in ws :
       /\ (w.op = "addEnrichmentFailure" /\ HasId(leads, w.leadId))
            => Len(getById(leads, w.leadId).enrichmentFailures) < MaxFailures
       /\ leads' = ApplyWrite(leads, w, now)
  /\ UNCHANGED <<limiter, pipe, now, raws, run, stage, st>>

NextMutations == Tick \/ Mutation(MutationWrites)

SpecMutations == Init /\ [][NextMutations]_vars


\* evaluateLead over enumerated leads and filter configurations: one collected
\* lead is in the store and a Filter run with some configuration evaluates it
Spam == <<"S","P","A","M">>
EvalLeads ==
  { NewLead([leadId |-> <<"a">>, businessName |-> n, state |-> s,
             sourceMetadata |-> [EmptyMetadata EXCEPT !.tags = t],
             status |-> "collected"], 0) :
      n \in {Ace, Spam}, s \in {Region, <<"Z">>},
      t \in {{}, {<<"B","a","r">>}, {Plumber, <<"b","a","r">>}} }

RuleGeo == filterRules[1]
RuleBadRegex == [field |-> "businessName", operator |-> "regex",
                 value |-> <<"(","c","e">>, reason |-> "invalid_contact"]
RuleRegex == [field |-> "businessName", operator |-> "regex",
              value |-> <<"c","e">>, reason |-> "competitor"]
RuleContains == [field |-> "businessName", operator |-> "contains",
                 value |-> <<"A","C">>, reason |-> "wrong_industry"]
RuleNoScore == [field |-> "score", operator |-> "is_null", value |-> NONE,
                reason |-> "duplicate_brand"]
EvalRules ==
  { <<>>, <<RuleGeo>>, <<RuleBadRegex>>, <<RuleBadRegex, RuleGeo>>,
    <<RuleGeo, RuleRegex>>, <<RuleRegex, RuleGeo>>, <<RuleContains, RuleRegex>>,
    <<RuleBadRegex, RuleNoScore>> }
EvalConfigs ==
  { [rules |-> r, excludeCategories |-> c, excludeKeywords |-> k] :
      r \in EvalRules, c \in {{}, {<<"B","A","R">>}},
      k \in {<<>>, << <<"x">>, <<"S","p","a","M">> >>} }

EvalInit ==
  /\ now = 0
  /\ leads \in { <<l>> : l \in EvalLeads }
  /\ raws = <<>>
  /\ run = NoRun
  /\ stage = "idle"
  /\ st = NewStage(1)
  /\ pipe = NoPipeline
  /\ limiter = NoLimiter

NextEval ==
  \/ StartFilter({1}, EvalConfigs)
  \/ FilterRecord({})
  \/ Complete

SpecEval == EvalInit /\ [][NextEval]_vars


\* getLeadsForStage called on its own, over stores of up to two leads whose
\* status, exclusion reason and cooldown are drawn freely
QueryRows(id) ==
  { [NewLead([leadId |-> id], 0) EXCEPT !.status = s, !.excludedReason = e,
                                        !.cooldownUntil = c] :
      s \in LeadStatuses, e \in {NULL, "bad_fit"}, c \in {NONE} \cup (0..MaxTime) }

QueryStores ==
  { <<>> } \cup { <<a>> : a \in QueryRows(<<"a">>) }
  \cup { <<a, b>> : a \in QueryRows(<<"a">>), b \in QueryRows(<<"b">>) }

QueryNames == {"collect", "filter", "enrich", "score", "output", "refresh"}
QueryLimits == {0, 1, 2}

QueryInit ==
  /\ now \in 0..MaxTime
  /\ leads \in QueryStores
  /\ raws = <<>>
  /\ run = NoRun
  /\ stage = "idle"
  /\ st = NewStage(1)
  /\ pipe = NoPipeline
  /\ limiter = NoLimiter

\* a caller asks for the leads of a stage; the answer is kept in the batch
GetLeadsForStage(names, lims) ==
  /\ Idle
  /\ \E name \in names : \E lim \in lims :
       st' = [NewStage(lim) EXCEPT !.batch = getLeadsForStage(leads, name, lim, now),
                                   !.phase = name]
  /\ stage' = "query"
  /\ UNCHANGED <<limiter, pipe, now, leads, raws, run>>

NextQuery == GetLeadsForStage(QueryNames, QueryLimits)

SpecQuery == QueryInit /\ [][NextQuery]_vars

\* Collect over two staged discoveries of any two of the name and location
\* variants
IdentityInputs == {1, 2, 4, 6, 7, 8, 9, 10}

IdentityInit ==
  /\ now = 0
  /\ leads = <<>>
  /\ raws \in { addBulk(<<>>, "yelp", <<a, b>>) : a, b \in IdentityInputs }
  /\ run = NoRun
  /\ stage = "idle"
  /\ st = NewStage(1)
  /\ pipe = NoPipeline
  /\ limiter = NoLimiter

NextIdentity ==
  \/ Tick
  \/ StartCollect(LimitChoices)
  \/ CollectRecord(PipeErrs)
  \/ Complete
  \/ RunFails

SpecIdentity == IdentityInit /\ [][NextIdentity]_vars

\* scoreLead over enumerated leads and scoring configurations: one enriched
\* lead is in the store and a Score run with some configuration scores it
ReviewCounts == {2, 14, 157}
Ratings == {30, 35, 47}
ScoreEnrichments ==
  { NoEnrichment,
    [NoEnrichment EXCEPT !.present = TRUE],
    [NoEnrichment EXCEPT !.present = TRUE, !.hasOnlineBooking = TRUE,
                         !.emails = << <<"e">> >>],
    [present |-> TRUE, emails |-> <<>>, phones |-> <<>>, hasOnlineBooking |-> FALSE,
     founderLinkedin |-> <<"f">>, lastWebsiteUpdate |-> 0, employeeCount |-> 5] }
ScoreMetadata ==
  { EmptyMetadata }
  \cup { [directories |-> <<>>, tags |-> {}, reviewCount |-> c, rating |-> r] :
           c \in ReviewCounts, r \in Ratings }
ScoreLeads ==
  { NewLead([leadId |-> <<"a">>, email |-> e, phone |-> p, website |-> w,
             enrichmentData |-> d, sourceMetadata |-> m, exhaustedAngles |-> x,
             status |-> "enriched"], 0) :
      e \in {<<>>, <<"e">>}, p \in {<<>>, Phone}, w \in {<<>>, Site},
      d \in ScoreEnrichments, m \in ScoreMetadata,
      x \in {{}, {"no_website"}} }

\* config.scoring with every weight and angle weight multiplied by k, and no
\* minimum score
ScaleConfig(k) ==
  [weights |-> [f \in DOMAIN scoring.weights |-> k * scoring.weights[f]],
   thresholds |-> [scoring.thresholds EXCEPT !.minScore = 0],
   angleWeights |-> [f \in DOMAIN scoring.angleWeights |-> k * scoring.angleWeights[f]]]
ScoreConfigs == {scoring, ScaleConfig(3), ScaleConfig(0 - 1)}

ScoreInit ==
  /\ now = 0
  /\ leads \in { <<l>> : l \in ScoreLeads }
  /\ raws = <<>>
  /\ run = NoRun
  /\ stage = "idle"
  /\ st = NewStage(1)
  /\ pipe = NoPipeline
  /\ limiter = NoLimiter

NextScore ==
  \/ Tick
  \/ StartScore(PipeLimits, ScoreConfigs)
  \/ ScoreRecord(PipeErrs)
  \/ Complete
  \/ RunFails

SpecScore == ScoreInit /\ [][NextScore]_vars

\* ------------------------------------------------------------------ claims
\* C1: the lead store holds at most one lead per identity key: no two rows of
\* leads carry the same lead_id, whatever Discover and Collect runs came before.
C1_OneLeadPerKey ==
  \A i, j \in 1..Len(leads) : leads[i].leadId = leads[j].leadId => i = j

\* two differently written records of one business were collected in
\* different runs, and the lead carries the name of the later one
C1_Witness ==
  \E a, b \in 1..Len(raws) :
    /\ a < b
    /\ raws[a].processed /\ raws[b].processed
    /\ Payload(raws[a]).name # Payload(raws[b]).name
    /\ RawLeadId(Payload(raws[a])) = RawLeadId(Payload(raws[b]))
    /\ \E i \in 1..Len(leads) :
         /\ leads[i].leadId = RawLeadId(Payload(raws[b]))
         /\ leads[i].businessName = Payload(raws[b]).name
         /\ leads[i].firstSeenAt < leads[i].lastSeenAt

\* C10: when Collect collects a record whose identity key is already in the
\* store, the lead's lastSeenAt and updatedAt become the time of the collection
\* and its firstSeenAt and createdAt stay as they were.
C10_CollectTouchesSeenTimes ==
  [][(stage = "collect" /\ HasNext /\ st'.passed = st.passed + 1
        /\ HasId(leads, RawLeadId(Payload(Current))))
     => LET id == RawLeadId(Payload(Current))
            old == getById(leads, id)
            new == getById(leads', id)
        IN /\ new.lastSeenAt = now
           /\ new.updatedAt = now
           /\ new.firstSeenAt = old.firstSeenAt
           /\ new.createdAt = old.createdAt]_vars

\* a lead first seen in an earlier run has just been collected again
C10_Witness ==
  /\ stage = "collect"
  /\ st.passed > 0
  /\ \E i \in 1..Len(leads) :
       /\ leads[i].firstSeenAt < now
       /\ leads[i].createdAt < now
       /\ leads[i].lastSeenAt = now
       /\ leads[i].updatedAt = now
       /\ leads[i].leadId \in st.seenIds


\* the position of a status in the forward order (0 for excluded and cooldown)
RECURSIVE OrderIndex(_, _)
OrderIndex(status, k) ==
  IF k > Len(ForwardOrder) THEN 0
  ELSE IF ForwardOrder[k] = status THEN k
  ELSE OrderIndex(status, k + 1)

\* the status changes the state diagram admits for a stage's step
AllowedChange(old, new, by) ==
  \/ new = old
  \/ OrderIndex(old, 1) > 0 /\ OrderIndex(new, 1) = OrderIndex(old, 1) + 1
  \/ new \in {"excluded", "cooldown"}
  \/ old = "cooldown" /\ by = "refresh" /\ new \in {"collected", "enriched", "filtered"}

\* C2: in every step of every stage a lead's status changes only to the next
\* status of the forward order, to excluded or cooldown, or from cooldown to
\* collected, enriched or filtered by Refresh; also when Collect collects a
\* record whose lead already exists with a later status.
C2_StatusOrder ==
  [][\A i \in 1..Len(leads) :
       AllowedChange(leads[i].status, leads'[i].status, stage)]_vars

\* C3: once a lead's excludedReason is non-null it stays non-null, and the lead
\* never becomes filtered, enriched, scored or output.
C3_ExcludedStaysOut ==
  [][\A i \in 1..Len(leads) :
       leads[i].excludedReason # NULL
       => (/\ leads'[i].excludedReason # NULL
           /\ leads'[i].status \in {"filtered", "enriched", "scored", "output"}
              => leads'[i].status = leads[i].status)]_vars

\* the part of C3 the selection decides: Filter, Enrich, Score and Output leave
\* a lead with a non-null excludedReason as it is
C3_StagesSkipExcluded ==
  [][(stage \in {"filter", "enrich", "score", "output"})
     => \A i \in 1..Len(leads) :
          leads[i].excludedReason # NULL => (leads'[i] = leads[i])]_vars

\* C4: the expired-cooldown sweep of Refresh gives no excluded lead the status
\* filtered, whatever its cooldownUntil is.
C4_SweepNeverFilters ==
  [][(stage = "refresh" /\ st.phase = "cooldown")
     => \A i \in 1..Len(leads) :
          (leads[i].excludedReason # NULL /\ leads'[i].status = "filtered")
          => leads[i].status = "filtered"]_vars

\* the sweep has just processed a lead that Filter excluded for its category
C4_Witness ==
  /\ stage = "refresh"
  /\ st.phase = "cooldown"
  /\ st.passed = 1
  /\ \E i \in 1..Len(leads) :
       /\ leads[i].leadId = st.batch[1].leadId
       /\ leads[i].excludedReason = "bad_fit"
       /\ st.batch[1].status = "excluded"
       /\ \E c \in leads[i].sourceMetadata.tags : toLowerCase(c) \in excludeCategories

\* a lead Score holds in cooldown for want of an active angle
HeldByScore(lead) ==
  /\ lead.status = "cooldown"
  /\ lead.excludedReason = NULL
  /\ lead.cooldownUntil # NONE
  /\ lead.lastOutputAt = NONE

\* C5: a lead Score put into cooldown for want of an active angle re-enters:
\* once cooldownUntil is in the past a Refresh run selects it when it is within
\* the run's limit, and the sweep clears its cooldown and leaves it with a
\* status at which a Score run selects it.
C5_CooldownReentry ==
  [][(/\ (stage = "idle" /\ stage' = "refresh")
        => \A i \in 1..Len(leads) :
             (HeldByScore(leads[i]) /\ leads[i].cooldownUntil < now
                /\ (st'.limit = 0 \/ i <= st'.limit))
             => \E k \in 1..Len(st'.batch) : st'.batch[k].leadId = leads[i].leadId
      /\ (stage = "refresh" /\ st.phase = "cooldown" /\ st'.passed = st.passed + 1
            /\ HeldByScore(Current))
        => \E i \in 1..Len(leads') :
             /\ leads'[i].leadId = Current.leadId
             /\ leads'[i].cooldownUntil = NONE
             /\ \E k \in 1..Len(getLeadsForStage(leads', "score", 0, now)) :
                  getLeadsForStage(leads', "score", 0, now)[k].leadId = Current.leadId)]_vars

\* the sweep has just put a lead that Score held back at enriched
C5_Witness ==
  /\ stage = "refresh"
  /\ st.phase = "cooldown"
  /\ st.passed = 1
  /\ HeldByScore(st.batch[1])
  /\ \E i \in 1..Len(leads) :
       /\ leads[i].leadId = st.batch[1].leadId
       /\ leads[i].status = "enriched"
       /\ leads[i].cooldownUntil = NONE

\* the predecessor statuses the selection contract names for each stage
C6_Predecessors(name) ==
  CASE name = "collect" -> {"new"}
    [] name = "filter" -> {"collected"}
    [] name = "enrich" -> {"filtered"}
    [] name = "score" -> {"enriched"}
    [] name = "output" -> {"scored"}
    [] OTHER -> {}

C6_Selectable(row, name, t) ==
  /\ row.status \in C6_Predecessors(name)
  /\ row.excludedReason = NULL
  /\ (row.cooldownUntil = NONE \/ row.cooldownUntil < t)

\* C6: getLeadsForStage returns only leads whose status is in the stage's
\* predecessor set, whose excludedReason is null and whose cooldownUntil is null
\* or earlier than now; all of them without a limit, at most limit of them with
\* one; nothing for a stage without a predecessor set; and never a lead
\* excluded for bad_fit when asked for 'filter'.
C6_StageSelection ==
  stage = "query"
  => LET res == st.batch
         name == st.phase
         all == SelectSeq(leads, LAMBDA row : C6_Selectable(row, name, now))
     IN /\ \A k \in 1..Len(res) :
             /\ C6_Selectable(res[k], name, now)
             /\ \E i \in 1..Len(leads) : leads[i] = res[k]
        /\ \A k, m \in 1..Len(res) : res[k].leadId = res[m].leadId => k = m
        /\ st.limit = 0 => res = all
        /\ st.limit > 0 => Len(res) <= st.limit
        /\ C6_Predecessors(name) = {} => res = <<>>
        /\ name = "filter" => \A k \in 1..Len(res) : res[k].excludedReason # "bad_fit"

\* with a limit of one, 'filter' was answered with the one selectable lead of
\* a store that also holds a collected lead excluded for bad_fit
C6_Witness ==
  /\ stage = "query"
  /\ st.phase = "filter"
  /\ st.limit = 1
  /\ Len(leads) = 2
  /\ leads[1].status = "collected" /\ leads[1].excludedReason = "bad_fit"
  /\ leads[2].status = "collected" /\ leads[2].cooldownUntil # NONE
  /\ st.batch = <<leads[2]>>

\* C7: while a lead's cooldownUntil is in the future, Filter, Enrich, Score and
\* Output change neither its status, its exclusion reason, its score nor its
\* angles, also when it was collected again during the cooldown.
C7_CooldownHolds ==
  [][(stage \in {"filter", "enrich", "score", "output"})
     => \A i \in 1..Len(leads) :
          (leads[i].cooldownUntil # NONE /\ leads[i].cooldownUntil > now)
          => (/\ leads'[i].status = leads[i].status
              /\ leads'[i].excludedReason = leads[i].excludedReason
              /\ leads'[i].score = leads[i].score
              /\ leads'[i].activeAngles = leads[i].activeAngles
              /\ leads'[i].exhaustedAngles = leads[i].exhaustedAngles)]_vars

\* a Filter run finds nothing to do while a lead collected again during its
\* cooldown waits at collected
C7_Witness ==
  /\ stage = "filter"
  /\ st.batch = <<>>
  /\ \E i \in 1..Len(leads) :
       /\ leads[i].status = "collected"
       /\ leads[i].cooldownUntil # NONE
       /\ leads[i].cooldownUntil > now
       /\ \E c \in leads[i].sourceMetadata.tags : toLowerCase(c) \in excludeCategories

\* C8: wherever a run's counters are stored, processed >= passed + failed.
C8_CountersBalance ==
  run.leadsProcessed >= run.leadsPassed + run.leadsFailed

\* C9: within a run no write stores a smaller leads_processed, leads_passed or
\* leads_failed than the row held before.
C9_CountersMonotonic ==
  [][stage # "idle"
     => (/\ run'.leadsProcessed >= run.leadsProcessed
         /\ run'.leadsPassed >= run.leadsPassed
         /\ run'.leadsFailed >= run.leadsFailed)]_vars

\* a run failed after progress writes had stored non-zero counters
C9_Witness ==
  /\ run.status = "failed"
  /\ run.leadsProcessed = 2
  /\ run.leadsPassed = 2
  /\ run.leadsFailed = 1

\* C11: a lead the expired-cooldown sweep of Refresh processes ends with no
\* cooldown, at status enriched when it had enrichment data or a stored score
\* before the sweep, and at status collected when it had neither.
HasRetainedProgress(lead) == lead.enrichmentData.present \/ lead.score # NONE

C12_ScoreOutcomes ==
  [][(stage = "score" /\ HasNext /\ st'.idx = st.idx + 1 /\ st'.errors = st.errors)
     => LET lead == Current
            r == scoreLead(lead, scoring, now)
            after == getById(leads', lead.leadId)
            low == r.score < minScore
            noAngle == r.angles \ lead.exhaustedAngles = {}
        IN /\ low => (/\ after.status = "excluded"
                      /\ after.excludedReason = "bad_fit"
                      /\ after.score = lead.score
                      /\ after.cooldownUntil = lead.cooldownUntil)
           /\ (~low /\ noAngle) => (/\ after.status = "cooldown"
                                    /\ after.cooldownUntil = now + DefaultCooldown
                                    /\ after.excludedReason = NULL
                                    /\ after.score = lead.score)
           /\ (~low /\ ~noAngle) => (/\ after.status = "scored"
                                     /\ after.score = r.score
                                     /\ after.scoreReasons = r.reasons
                                     /\ after.activeAngles = r.angles \ lead.exhaustedAngles
                                     /\ after.exhaustedAngles = lead.exhaustedAngles
                                     /\ after.excludedReason = NULL
                                     /\ after.cooldownUntil = lead.cooldownUntil)]_vars

\* Score has just put a lead with a passing score and no angle left into cooldown
C12_Witness ==
  /\ stage = "score"
  /\ st.idx > 1
  /\ st.errors = 0
  /\ LET lead == st.batch[st.idx - 1]
         after == getById(leads, lead.leadId)
     IN /\ scoreLead(lead, scoring, now).score >= minScore
        /\ scoreLead(lead, scoring, now).angles # {}
        /\ scoreLead(lead, scoring, now).angles \subseteq lead.exhaustedAngles
        /\ after.status = "cooldown"
        /\ after.cooldownUntil = now + DefaultCooldown
        /\ after.excludedReason = NULL

\* Score has just excluded a lead as bad_fit
C12_OtherOutcomes ==
  /\ stage = "score"
  /\ st.idx > 1
  /\ getById(leads, st.batch[st.idx - 1].leadId).status \in {"excluded"}

\* C13: in every reachable state no lead has an angle both in its active set
\* and in its exhausted set.
C13_AnglesDisjoint ==
  \A i \in 1..Len(leads) : leads[i].activeAngles \cap leads[i].exhaustedAngles = {}

\* a lead holds an active angle next to an exhausted one
C13_Witness ==
  \E i \in 1..Len(leads) :
    /\ leads[i].activeAngles # {}
    /\ leads[i].exhaustedAngles # {}

\* C14: the union of a lead's active and exhausted angle sets never loses an
\* element in a step of Score, exhaustAngle, Collect, Enrich or any other stage;
\* the one exception is the reset a Refresh run with resetExhaustedAngles does.
AngleUnion(lead) == lead.activeAngles \cup lead.exhaustedAngles

C14_AngleUnionGrows ==
  [][(~(stage = "refresh" /\ st.reset))
     => \A i \in 1..Len(leads) :
          AngleUnion(leads[i]) \subseteq AngleUnion(getById(leads', leads[i].leadId))]_vars

\* C15: for every lead and every scoring configuration the score scoreLead
\* computes is an integer from 0 to 100, and it is the score stored on the lead
\* when the Score stage scores the lead.
C15_ScoreBounds ==
  [][(stage = "score" /\ HasNext)
     => LET r == scoreLead(Current, st.config, now)
        IN /\ r.score \in 0..100
           /\ (st'.passed = st.passed + 1)
                => getById(leads', Current.leadId).score = r.score]_vars

\* a lead whose weights add up to more than 100 has been scored at 100
C15_Witness ==
  /\ stage = "score"
  /\ st.idx > 1
  /\ st.passed = 1
  /\ st.config = ScaleConfig(3)
  /\ getById(leads, st.batch[st.idx - 1].leadId).status = "scored"
  /\ getById(leads, st.batch[st.idx - 1].leadId).score = 100

\* a lead whose weights add up to less than 0 has been scored at 0
C15_WitnessZero ==
  /\ stage = "score"
  /\ st.passed = 1
  /\ st.config = ScaleConfig(0 - 1)
  /\ leads[1].status = "scored"
  /\ leads[1].score = 0

\* a sum of 75.5 (email, phone, website, 14 reviews, rating 4.7) is stored as 76
C15_WitnessRounded ==
  /\ stage = "score"
  /\ st.passed = 1
  /\ st.config = scoring
  /\ leads[1].status = "scored"
  /\ getReviewCount(leads[1]) = 14
  /\ getRating(leads[1]) = 47
  /\ leads[1].score = 76

\* C16: a lead with no website, review count 2, rating 3.0, no online-booking
\* signal and no email or phone is scored with exactly the angles no_website,
\* low_reviews, poor_ratings and no_online_booking, and with the sum of these
\* four angle weights as its score.
Listings(lead) ==
  { Payload(raws[i]) : i \in { k \in 1..Len(raws) :
                                  /\ raws[k].processed
                                  /\ RawLeadId(Payload(raws[k])) = lead.leadId } }

LowReviewLead(lead) ==
  /\ lead.website = <<>> /\ lead.email = <<>> /\ lead.phone = <<>>
  /\ lead.enrichmentData.present
  /\ ~lead.enrichmentData.hasOnlineBooking
  /\ lead.enrichmentData.emails = <<>> /\ lead.enrichmentData.phones = <<>>
  /\ Listings(lead) # {}
  /\ \A raw \in Listings(lead) : raw.reviewCount = 2 /\ raw.rating = 30

C16_LowReviewAngles ==
  (stage = "score" /\ HasNext /\ LowReviewLead(Current))
  => /\ scoreLead(Current, st.config, now).angles
          = {"no_website", "low_reviews", "poor_ratings", "no_online_booking"}
     /\ scoreLead(Current, st.config, now).score
          = noWebsiteWeight + lowReviewsWeight + poorRatingsWeight
            + noOnlineBookingWeight

\* scoreLead gives the four angles when the review count and the rating are
\* fields of the lead's sourceMetadata
C16_WithMetadata ==
  \A i \in 1..Len(leads) :
    (/\ stage = "idle"
     /\ leads[i].status = "enriched"
     /\ leads[i].website = <<>> /\ leads[i].email = <<>> /\ leads[i].phone = <<>>
     /\ leads[i].enrichmentData = [NoEnrichment EXCEPT !.present = TRUE]
     /\ getReviewCount(leads[i]) = 2 /\ getRating(leads[i]) = 30)
    => /\ scoreLead(leads[i], scoring, now).angles
            = {"no_website", "low_reviews", "poor_ratings", "no_online_booking"}
       /\ scoreLead(leads[i], scoring, now).score = 75

\* C17: the identity key depends only on the canonical name, the city, the
\* region and the country, each lower-cased and trimmed, with an absent country
\* read as the default: records with the same four values get the same key
\* whatever else they carry, a stored lead's key is the key of its own four
\* columns at every time and in every store, and records with the same four
\* values are collected into one lead.
KeyTuple(name, city, state, country) ==
  << trim(toLowerCase(name)), trim(toLowerCase(city)), trim(toLowerCase(state)),
     trim(toLowerCase(IF country = <<>> THEN US ELSE country)) >>

RawKeyTuple(raw) == KeyTuple(canonicalizeName(raw.name), raw.city, raw.state, raw.country)

C17_KeyDeterminism ==
  /\ \A i, j \in 1..Len(raws) :
       (i <= j /\ RawKeyTuple(Payload(raws[i])) = RawKeyTuple(Payload(raws[j])))
         => /\ RawLeadId(Payload(raws[i])) = RawLeadId(Payload(raws[j]))
            /\ Cardinality({ k \in 1..Len(leads) :
                               leads[k].leadId = RawLeadId(Payload(raws[i])) }) <= 1
  /\ \A k \in 1..Len(leads) :
       /\ leads[k].leadId = generateLeadId(leads[k].canonicalName, leads[k].city,
                                           leads[k].state, leads[k].country)
       /\ \E i \in 1..Len(raws) :
            KeyTuple(leads[k].canonicalName, leads[k].city, leads[k].state,
                     leads[k].country) = RawKeyTuple(Payload(raws[i]))

\* a record without a country and a record with country 'us', another case
\* and spacing of city and state and other contact data are one lead
C17_Witness ==
  /\ Len(raws) = 2
  /\ raws[1].processed /\ raws[2].processed
  /\ Payload(raws[1]).country = <<>>
  /\ Payload(raws[2]).country = <<"u","s">>
  /\ Payload(raws[1]).city # Payload(raws[2]).city
  /\ Len(leads) = 1
  /\ leads[1].leadId = RawLeadId(Payload(raws[1]))
  /\ leads[1].city = Payload(raws[2]).city

\* C18: names that differ only in letter case, punctuation, amount of
\* whitespace and suffix tokens at any position have the same canonical name;
\* a canonical name has no leading, trailing or repeated whitespace and no
\* suffix token as a word, and canonicalizing it again changes nothing.
RECURSIVE WordsOf(_)
WordsOf(s) ==
  IF s = <<>> THEN <<>>
  ELSE IF ~IsWordChar(Head(s)) THEN WordsOf(Tail(s))
  ELSE <<FirstWord(s)>> \o WordsOf(SubSeq(s, Len(FirstWord(s)) + 1, Len(s)))

NameWords(name) ==
  SelectSeq(WordsOf(RemoveSpecial(toLowerCase(name))), LAMBDA w : w \notin SuffixTokens)

WellFormedName(c) ==
  /\ c = <<>> \/ (~IsSpaceChar(c[1]) /\ ~IsSpaceChar(c[Len(c)]))
  /\ \A i \in 1..(Len(c) - 1) : ~(IsSpaceChar(c[i]) /\ IsSpaceChar(c[i + 1]))
  /\ Range(WordsOf(c)) \cap SuffixTokens = {}

C18_Canonicalize ==
  \A i, j \in 1..Len(raws) :
    LET a == Payload(raws[i]).name
        b == Payload(raws[j]).name
    IN /\ NameWords(a) = NameWords(b) => canonicalizeName(a) = canonicalizeName(b)
       /\ WellFormedName(canonicalizeName(a))
       /\ canonicalizeName(canonicalizeName(a)) = canonicalizeName(a)

\* the same, for names whose suffix tokens stand at the start or at the end
TokensAtEnds(name) ==
  LET w == WordsOf(RemoveSpecial(toLowerCase(name)))
  IN \A k \in 2..(Len(w) - 1) : w[k] \notin SuffixTokens

C18_TokensAtEnds ==
  \A i, j \in 1..Len(raws) :
    LET a == Payload(raws[i]).name
        b == Payload(raws[j]).name
    IN (TokensAtEnds(a) /\ TokensAtEnds(b))
       => /\ NameWords(a) = NameWords(b) => canonicalizeName(a) = canonicalizeName(b)
          /\ WellFormedName(canonicalizeName(a))
          /\ canonicalizeName(canonicalizeName(a)) = canonicalizeName(a)

\* the invocation has a failed stage: its awaited command is about to throw,
\* or has thrown
StageFailed ==
  \/ pipe.status = "running" /\ pipe.awaiting /\ Idle /\ run.status = "failed"
  \/ pipe.status = "failed"

StagesRun(options) ==
  SelectSeq(PipelineStages, LAMBDA name : ~Skipped(name, options))

\* C20: a completed pipeline run with no skip flag has started the seven
\* stages Discover, Collect, Filter, Enrich, Score, Output, Refresh once each,
\* in that order
C20_SevenStages ==
  (pipe.status = "completed" /\ ~pipe.options.skipDiscover /\ ~pipe.options.skipEnrich)
    => pipe.log = <<"discover", "collect", "filter", "enrich", "score", "output",
                    "refresh">>

\* a completed pipeline run has started the six stages of runPipeline whose
\* skip flag is not set, once each and in order, and never Refresh
C20_SixStages ==
  pipe.status = "completed" => pipe.log = StagesRun(pipe.options)

\* a stage is started only while no other stage is running, and as the next
\* entry of the invocation's log
C20_OneAtATime ==
  [][(stage' # stage /\ stage' # "idle") =>
       (stage = "idle" /\ pipe'.log = Append(pipe.log, stage'))]_vars

RecordErrorStep ==
  CASE stage \in {"filter", "score", "output", "refresh"} -> st'.errors = st.errors + 1
    [] stage = "collect" -> st'.failed = st.failed + 1
    [] stage = "enrich" ->
         \E i \in 1..Len(leads) :
           leads'[i].enrichmentFailures = Append(leads[i].enrichmentFailures, "unknown")
    [] OTHER -> FALSE

FetchFailureTypes ==
  {"page_not_found", "rate_limited", "dns_error", "ssl_error", "site_timeout",
   "captcha_block"}

\* the step appends, to some lead's failure list, an entry of a failed fetch
FetchFailureStep ==
  /\ stage = "enrich"
  /\ \E i \in 1..Len(leads) :
       /\ Len(leads'[i].enrichmentFailures) > Len(leads[i].enrichmentFailures)
       /\ leads'[i].enrichmentFailures[Len(leads[i].enrichmentFailures) + 1]
            \in FetchFailureTypes

\* C23: in Enrich, a lead whose website fetch fails gets a failure entry with
\* the failure type and is counted in the run's failed counter, not in passed,
\* and the stage continues with the next lead
C23_FetchFailureCounted ==
  [][FetchFailureStep =>
       /\ st'.failed = st.failed + 1
       /\ st'.passed = st.passed
       /\ st'.idx = st.idx + 1
       /\ stage' = stage]_vars

\* what holds of a failed fetch: the entry is written and the stage continues
\* with the next lead, the lead being counted in passed or in failed
C23_FetchFailureContinues ==
  [][FetchFailureStep =>
       /\ st'.passed + st'.failed = st.passed + st.failed + 1
       /\ st'.idx = st.idx + 1
       /\ stage' = stage]_vars

\* a lead with a failed fetch on record that Enrich passed on as enriched
C23_FailedFetchEnriched ==
  \E i \in 1..Len(leads) :
    /\ leads[i].status = "enriched"
    /\ leads[i].enrichmentFailures = <<"page_not_found">>

\* lead i waits for the stage: the stage's selection without limit holds it
Waits(i, stageName) ==
  /\ i <= Len(leads)
  /\ StageEligible(leads[i], stageName, now)
  /\ stageName = "output" =>
       (IF leads[i].score = NONE THEN 0 ELSE leads[i].score) >= OutputMinimum

\* C24: with Filter, Enrich, Score and Output run repeatedly with a limit
\* below the number of eligible leads and no new lead arriving, every lead
\* that waits for a stage is eventually processed by a run of that stage and
\* leaves the stage's selection, also when leads with status scored lie below
\* the minimum score of Output
C24_NoStarvation ==
  \A i \in 1..2 : \A stageName \in {"filter", "enrich", "score", "output"} :
    Waits(i, stageName) ~> ~Waits(i, stageName)

\* what holds: no lead is starved in Filter, Enrich or Score
C24_NoStarvationBeforeOutput ==
  \A i \in 1..2 : \A stageName \in {"filter", "enrich", "score"} :
    Waits(i, stageName) ~> ~Waits(i, stageName)

\* Output is started over a store in which a lead waits for it, and selects
\* nothing: the one lead its limit admits is below its minimum score
C24_OutputSelectsNothing ==
  /\ stage = "output"
  /\ st.batch = <<>>
  /\ \E i \in 1..Len(leads) : Waits(i, "output")

\* the rows lead b can have once the stage's change is complete
CompleteRows(b, stageName) ==
  { getById(ApplyWrites(<<b>>, ws, Len(ws), now), b.leadId) :
      ws \in WritesOf(b, stageName, PipeOutcomes) }

\* the first k leads of the batch carry the stage's complete change in store,
\* the others are as they were selected and are selected again
PrefixAdvanced(store, batch, stageName, k) ==
  \A j \in 1..Len(batch) :
    LET row == getById(store, batch[j].leadId)
    IN IF j <= k THEN row \in CompleteRows(batch[j], stageName)
       ELSE row = batch[j] /\ StageEligible(row, stageName, now)

\* C25: when a run of Filter, Enrich, Score or Output stops after it selected
\* a batch of n leads, some k <= n exists such that the first k leads in
\* selection order carry the complete change of the stage and the other n - k
\* are exactly as before the run and selected again by the next run
C25_PrefixAdvanced ==
  [][(stage \in {"filter", "enrich", "score", "output"} /\ stage' = "idle") =>
       \E k \in 0..Len(st.batch) : PrefixAdvanced(leads', st.batch, stage, k)]_vars

\* what holds: a run that stops between two records leaves such a prefix
C25_PrefixBetweenRecords ==
  [][(/\ stage \in {"filter", "enrich", "score", "output"}
      /\ stage' = "idle"
      /\ leads' = leads) =>
       PrefixAdvanced(leads', st.batch, stage, st.idx - 1)]_vars

\* a lead marked as output that has no cooldown: the process stopped between
\* markOutput and setCooldown
C25_OutputWithoutCooldown ==
  \E i \in 1..Len(leads) :
    /\ leads[i].status = "output"
    /\ leads[i].cooldownUntil = NONE

\* the calls of acquire that returned at a time in [t, t + windowMs)
AdmittedIn(t) ==
  {i \in 1..Len(limiter.requests) :
     t <= limiter.requests[i] /\ limiter.requests[i] < t + limiter.windowMs}

\* C26: under any interleaving of concurrent callers of acquire, at most
\* maxRequests calls return within any interval of length windowMs, and a
\* caller that found the window full returns only when the request that was
\* the oldest on record then is at least windowMs old
C26_WindowHolds ==
  [][/\ \A t \in 0..LimiterHorizon :
          (Cardinality(AdmittedIn(t)) <= limiter.maxRequests)'
     /\ \A c \in Callers :
          (/\ limiter.waiting[c] # NotWaiting
           /\ Len(limiter'.requests) > Len(limiter.requests)
           /\ limiter'.waiting[c] = NotWaiting) =>
            now - limiter.waiting[c].oldestTime >= limiter.windowMs]_vars

\* with maxRequests 2, two callers found the window full, slept on the same
\* oldest request and were both admitted later, in different windows
C26_Witness ==
  /\ limiter.maxRequests = 2
  /\ Len(limiter.requests) >= 4
  /\ \E c \in Callers : limiter.waiting[c] # NotWaiting
  /\ limiter.requests[1] = limiter.requests[2]
  /\ Cardinality(AdmittedIn(limiter.requests[3])) = 2

\* an Output run ends with success and no lead of its batch failed
OutputRunSucceeds ==
  /\ stage = "output"
  /\ stage' = "idle"
  /\ run'.status = "completed"
  /\ st.failed = 0
  /\ st.batch # <<>>

\* C27: after a successful Output run every lead the run exported has status
\* output, a lastOutputAt equal to the export time and a cooldownUntil equal to
\* the export time plus the default cooldown period.
C27_ExportedMarked ==
  [][OutputRunSucceeds
     => \A b \in 1..Len(st.batch) :
          LET row == getById(leads', st.batch[b].leadId)
          IN /\ row.status = "output"
             /\ row.lastOutputAt # NONE
             /\ row.cooldownUntil = row.lastOutputAt + DefaultCooldown]_vars

\* what the run leaves: setCooldown writes status cooldown over the status
\* markOutput wrote, the two times are as stated
C27_ExportedInCooldown ==
  [][OutputRunSucceeds
     => \A b \in 1..Len(st.batch) :
          LET row == getById(leads', st.batch[b].leadId)
          IN /\ row.status = "cooldown"
             /\ row.lastOutputAt # NONE
             /\ row.cooldownUntil = row.lastOutputAt + DefaultCooldown]_vars

\* only leads that are scored, not excluded, out of cooldown and at or above
\* the minimum are in the batch of an Output run
C27_OnlyEligibleExported ==
  [][(stage = "idle" /\ stage' = "output")
     => \A b \in 1..Len(st'.batch) :
          LET row == st'.batch[b]
          IN /\ row = getById(leads, row.leadId)
             /\ row.status = "scored"
             /\ row.excludedReason = NULL
             /\ (row.cooldownUntil = NONE \/ row.cooldownUntil < now)
             /\ row.score # NONE
             /\ row.score >= minScore]_vars

\* an Output run that marked every lead of its batch and is about to complete
C27_RunExported ==
  /\ stage = "output"
  /\ ~HasNext
  /\ st.passed > 0
  /\ st.failed = 0

\* C28: under a non-decreasing clock, whatever mutation of the store comes next
\* (upsert, updateStatus, exclude, setCooldown, updateAngles, updateEnrichment,
\* addEnrichmentFailure, updateScore, markOutput): no lead's firstSeenAt or
\* createdAt changes, no lead's lastSeenAt or updatedAt decreases, the mutated
\* lead's updatedAt is the current time, and firstSeenAt <= lastSeenAt and
\* createdAt <= updatedAt hold of every lead before and after.
C28_Timestamps ==
  \A w \in MutationWrites :
    LET after == ApplyWrite(leads, w, now)
    IN /\ Len(after) >= Len(leads)
       /\ \A i \in 1..Len(leads) :
            /\ after[i].leadId = leads[i].leadId
            /\ after[i].firstSeenAt = leads[i].firstSeenAt
            /\ after[i].createdAt = leads[i].createdAt
            /\ after[i].lastSeenAt >= leads[i].lastSeenAt
            /\ after[i].updatedAt >= leads[i].updatedAt
            /\ leads[i].firstSeenAt <= leads[i].lastSeenAt
            /\ leads[i].createdAt <= leads[i].updatedAt
       /\ \A i \in 1..Len(after) :
            /\ after[i].leadId = WriteId(w) => after[i].updatedAt = now
            /\ after[i].firstSeenAt <= after[i].lastSeenAt
            /\ after[i].createdAt <= after[i].updatedAt
       /\ HasId(after, WriteId(w)) \/ w.op # "upsert"

\* a lead inserted at an earlier time has been upserted and partially updated
\* since
C28_Witness ==
  \E i \in 1..Len(leads) :
    /\ leads[i].firstSeenAt < leads[i].lastSeenAt
    /\ leads[i].lastSeenAt < leads[i].updatedAt
    /\ leads[i].updatedAt = now
    /\ leads[i].status = "filtered"
    /\ leads[i].enrichmentFailures # <<>>
    /\ leads[i].lastOutputAt # NONE

ExclusionReasons == {"bad_fit", "duplicate_brand", "competitor", "manually_excluded",
                     "invalid_contact", "out_of_geo", "wrong_industry"}

\* the custom rules of a configuration that match the lead, by position
Matching(lead, cfg) ==
  {i \in 1..Len(cfg.rules) : evaluateRule(lead, cfg.rules[i])}

\* the result the four checks give in their order
FirstMatch(lead, cfg) ==
  IF lead.excludedReason # NULL THEN lead.excludedReason
  ELSE IF \E t \in lead.sourceMetadata.tags : \E c \in cfg.excludeCategories :
            toLowerCase(t) = toLowerCase(c)
       THEN "bad_fit"
  ELSE IF \E i \in 1..Len(cfg.excludeKeywords) :
            IsSubstring(toLowerCase(cfg.excludeKeywords[i]),
                        toLowerCase(lead.businessName))
       THEN "bad_fit"
  ELSE IF Matching(lead, cfg) # {}
       THEN cfg.rules[CHOOSE i \in Matching(lead, cfg) :
                        \A j \in Matching(lead, cfg) : i <= j].reason
  ELSE NULL

\* C29: the evaluation of a lead returns the result of the first check that
\* matches, in the order own excludedReason, excluded category, excluded
\* keyword, custom rules in declared order, and null exactly when none
\* matches; the Filter stage excludes the lead with that reason; a custom rule
\* with an invalid regex pattern never matches and the run does not fail or
\* count an error for it.
C29_FirstMatchWins ==
  [][(stage = "filter" /\ HasNext)
     => LET lead == Current
            cfg == st.filters
            row == getById(leads', lead.leadId)
        IN /\ Evaluate(lead, cfg) = FirstMatch(lead, cfg)
           /\ \A r \in ExclusionReasons :
                Evaluate([lead EXCEPT !.excludedReason = r], cfg) = r
           /\ \A i \in 1..Len(cfg.rules) :
                (cfg.rules[i].operator = "regex" /\ RegExpThrows(cfg.rules[i].value))
                  => i \notin Matching(lead, cfg)
           /\ row.excludedReason = FirstMatch(lead, cfg)
           /\ (row.status = "excluded") = (FirstMatch(lead, cfg) # NULL)
           /\ st'.errors = st.errors
           /\ run'.status # "failed"]_vars

\* a lead that only a later custom rule matches, after a rule with an invalid
\* pattern, has been excluded with the later rule's reason
C29_Witness ==
  /\ stage = "filter"
  /\ st.idx = 2
  /\ st.filters.rules = <<RuleBadRegex, RuleGeo>>
  /\ leads[1].excludedReason = "out_of_geo"
  /\ leads[1].businessName = Ace

\* a lead that a category and a custom rule both match is excluded as bad_fit
C29_WitnessCategory ==
  /\ stage = "filter"
  /\ st.idx = 2
  /\ st.filters.rules = <<RuleRegex, RuleGeo>>
  /\ st.filters.excludeCategories # {}
  /\ leads[1].businessName = Ace
  /\ leads[1].excludedReason = "bad_fit"

\* the signal-change sweep has processed its current lead without an error
SignalTouchStep ==
  /\ stage = "refresh"
  /\ st.phase = "signal"
  /\ HasNext
  /\ st'.idx = st.idx + 1
  /\ st'.failed = st.failed

IsPrefix(s, t) == Len(s) <= Len(t) /\ SubSeq(t, 1, Len(s)) = s

C32_AcquireReturns ==
  /\ [][\A c \in Callers :
          (limiter'.waiting[c] # NotWaiting /\ limiter'.waiting[c] # limiter.waiting[c])
            => limiter'.waiting[c].wakeAt > now]_vars
  /\ \A c \in Callers :
       (limiter.waiting[c] # NotWaiting) ~> (limiter.waiting[c] = NotWaiting)

\* with maxRequests 1, a caller that slept, retried and slept again has
\* returned after the two callers before it
C32_Witness ==
  /\ limiter.maxRequests = 1
  /\ Len(limiter.requests) = Cardinality(Callers)
  /\ Suspended = {}
  /\ limiter.requests[3] - limiter.requests[1] >= 2 * (limiter.windowMs + WaitBuffer)

\* Collect merges the current discovery into a lead that is already stored
RecollectStep ==
  /\ stage = "collect"
  /\ HasNext
  /\ st'.passed = st.passed + 1
  /\ HasId(leads, RawLeadId(Payload(Current)))

\* C33: collecting a raw record for a lead that already exists keeps every
\* contact field the lead stores and the raw record does not carry (phone,
\* email, website), and leaves score, angle sets, enrichment data, enrichment
\* failures, excludedReason and cooldownUntil unchanged.
C33_CollectMerges ==
  [][RecollectStep
     => LET raw == Payload(Current)
            old == getById(leads, RawLeadId(raw))
            new == getById(leads', RawLeadId(raw))
        IN /\ \A f \in {"phone", "email", "website"} :
                raw[f] = <<>> => new[f] = old[f]
           /\ new.score = old.score
           /\ new.activeAngles = old.activeAngles
           /\ new.exhaustedAngles = old.exhaustedAngles
           /\ new.enrichmentData = old.enrichmentData
           /\ new.enrichmentFailures = old.enrichmentFailures
           /\ new.excludedReason = old.excludedReason
           /\ new.cooldownUntil = old.cooldownUntil]_vars

\* what the merge keeps: the columns createFromRaw does not name
C33_DerivedStateKept ==
  [][RecollectStep
     => LET raw == Payload(Current)
            old == getById(leads, RawLeadId(raw))
            new == getById(leads', RawLeadId(raw))
        IN /\ new.score = old.score
           /\ new.activeAngles = old.activeAngles
           /\ new.exhaustedAngles = old.exhaustedAngles
           /\ new.enrichmentData = old.enrichmentData
           /\ new.enrichmentFailures = old.enrichmentFailures
           /\ new.excludedReason = old.excludedReason
           /\ new.cooldownUntil = old.cooldownUntil]_vars

\* a lead stored with a phone number or a website has lost it to a raw record
\* that carries none
C33_ContactLost ==
  /\ stage = "collect"
  /\ st.idx > 1
  /\ LET raw == Payload(st.batch[st.idx - 1])
     IN /\ HasId(leads, RawLeadId(raw))
        /\ getById(leads, RawLeadId(raw)).phone = <<>>
        /\ getById(leads, RawLeadId(raw)).website = <<>>
        /\ \E a \in 1..Len(raws) :
             /\ raws[a].processed
             /\ RawLeadId(Payload(raws[a])) = RawLeadId(raw)
             /\ Payload(raws[a]).phone # <<>> \/ Payload(raws[a]).website # <<>>

C35_RawsConsumed ==
  /\ [][/\ \A i \in 1..Len(raws) :
             /\ i <= Len(raws')
             /\ raws[i].processed => raws'[i].processed
        /\ \A i \in 1..Len(leads) : HasId(leads', leads[i].leadId)
        /\ (stage = "idle" /\ stage' = "collect")
             => \A b \in 1..Len(st'.batch) :
                  /\ ~raws[st'.batch[b].id].processed
                  /\ \A i \in 1..(st'.batch[b].id - 1) :
                       raws[i].processed \/ \E a \in 1..(b - 1) : st'.batch[a].id = i
        /\ (stage = "collect" /\ HasNext /\ st'.passed = st.passed + 1)
             => HasId(leads', RawLeadId(Payload(Current)))
        /\ (stage = "collect" /\ stage' = "idle" /\ run'.status = "completed")
             => \A b \in 1..Len(st.batch) : raws[st.batch[b].id].processed]_vars
  /\ \A i \in 1..Len(ConsumeInputs) : <>(Len(raws) >= i /\ raws[i].processed)

\* a run with limit 2 skipped an in-run duplicate, a later run collected the
\* third discovery, and all three are marked
C35_Witness ==
  /\ stage = "idle"
  /\ run.status = "completed"
  /\ \A i \in 1..Len(raws) : raws[i].processed
  /\ Len(leads) = 2
  /\ \E i \in 1..Len(leads) : leads[i].createdAt > 0

TerminalStatuses == {"completed", "failed", "cancelled"}

OutputSelectStep == stage = "idle" /\ stage' = "output"

\* An Output record is marked in full: markOutput and setCooldown both ran.
OutputMarkStep ==
  /\ stage = "output"
  /\ HasNext
  /\ st'.idx = st.idx + 1
  /\ st'.passed = st.passed + 1

BetweenRuns == stage = "idle"

\* C38: between stage runs a lead has status excluded exactly when its
\* excludedReason is non-null, and a lead with status cooldown has a non-null
\* cooldownUntil.
C38_StatusMatchesReason ==
  BetweenRuns =>
    \A i \in 1..Len(leads) :
      /\ (leads[i].status = "excluded") <=> (leads[i].excludedReason # NULL)
      /\ leads[i].status = "cooldown" => leads[i].cooldownUntil # NONE

\* The directions that hold in every state: an excluded lead carries a reason,
\* and a lead in cooldown carries its cooldownUntil.
C38_ExcludedHasReason ==
  \A i \in 1..Len(leads) :
    /\ leads[i].status = "excluded" => leads[i].excludedReason # NULL
    /\ leads[i].status = "cooldown" => leads[i].cooldownUntil # NONE

\* A Collect run has met an excluded lead again: createFromRaw wrote status
\* new, the stage wrote collected, and the exclusion reason is still stored.
C38_RecollectedExcluded ==
  /\ BetweenRuns
  /\ \E i \in 1..Len(leads) :
       /\ leads[i].status = "collected"
       /\ leads[i].excludedReason # NULL

\* The expired-cooldown sweep has resumed a lead that carries an exclusion
\* reason.
C38_SweptExcluded ==
  /\ BetweenRuns
  /\ \E i \in 1..Len(leads) :
       /\ leads[i].status \in {"enriched", "scored"}
       /\ leads[i].excludedReason # NULL
       /\ leads[i].cooldownUntil = NONE

\* ------------------------------------------------------------------ C39
\* One invocation of the pipeline command in which no statement throws, over a
\* store that holds no lead and either no raw record or one raw record that an
\* earlier discover command staged and no Collect run has processed.
MaxFullRun == 3
FullRunLimits == {1, 2, 3}
FullRunInputs == {2, 3, 6}
FullRunOutcomes == {1, 2, 3}
FullRunBacklog == addBulk(<<>>, "yelp", <<4>>)

FullRunInit ==
  /\ now = 0
  /\ leads = <<>>
  /\ raws \in {<<>>, FullRunBacklog}
  /\ run = NoRun
  /\ stage = "idle"
  /\ st = NewStage(1)
  /\ pipe = NoPipeline
  /\ limiter = NoLimiter

PipelineOnce(lims) == pipe.status = "none" /\ PipelineStart(lims)

NextFullRun ==
  \/ Tick
  \/ PipelineOnce(FullRunLimits)
  \/ PipelineSkip
  \/ PipelineStage
  \/ PipelineStageReturns
  \/ PipelineDone
  \/ DiscoverYield(FullRunInputs, MaxFullRun)
  \/ DiscoverSourceEnds
  \/ CollectRecord({})
  \/ FilterRecord({})
  \/ EnrichRecord(FullRunOutcomes, {})
  \/ ScoreRecord({})
  \/ OutputRecord({})
  \/ Complete

SpecFullRun == FullRunInit /\ [][NextFullRun]_vars

\* a raw record this run's Discover staged, and a lead made from one
NewRaw(d) == d.rawData \in FullRunInputs
FromNewRaw(lead) == \E r \in FullRunInputs : lead.leadId = RawLeadId(RawInputs[r])

\* the lead of every newly discovered business went through the run: it is
\* excluded, or it is in cooldown, and when Score gave it a score and angles
\* Output exported it
NewLeadsExported ==
  /\ \A i \in 1..Len(raws) :
       NewRaw(raws[i]) =>
         /\ raws[i].processed
         /\ \E j \in 1..Len(leads) : leads[j].leadId = RawLeadId(Payload(raws[i]))
  /\ \A j \in 1..Len(leads) :
       FromNewRaw(leads[j]) =>
         IF leads[j].excludedReason # NULL THEN leads[j].status = "excluded"
         ELSE /\ leads[j].status = "cooldown"
              /\ leads[j].score # NONE => leads[j].lastOutputAt # NONE

\* with --skip-enrich no lead filtered in the run is scored or exported in it
SkipEnrichStops ==
  \A j \in 1..Len(leads) :
    /\ leads[j].status \in {"filtered", "excluded"}
    /\ leads[j].score = NONE
    /\ leads[j].lastOutputAt = NONE

FullRunDone ==
  /\ pipe.status = "completed"
  /\ ~pipe.options.skipDiscover
  /\ ~pipe.options.skipEnrich
  /\ pipe.options.limit >= Len(leads)

\* C39: in one full pipeline run with no skip flag, no error and a limit not
\* smaller than the number of leads, every newly discovered business that
\* matches no exclusion, scores at least the minimum and has an angle is
\* exported by the Output stage of the same run; with --skip-enrich no lead
\* filtered in the run reaches scored or output in it.
C39_FullRunExports ==
  /\ FullRunDone => NewLeadsExported
  /\ pipe.status = "completed" /\ pipe.options.skipEnrich => SkipEnrichStops

\* The same over a store without a backlog of unprocessed raw records.
C39_ExportsWithoutBacklog ==
  FullRunDone /\ (\A i \in 1..Len(raws) : NewRaw(raws[i])) => NewLeadsExported

C39_SkipEnrichStops ==
  pipe.status = "completed" /\ pipe.options.skipEnrich => SkipEnrichStops

\* The run is over; Collect took the backlog first and a business this run
\* discovered was left in raw_discoveries, although the limit is not smaller
\* than the number of leads.
C39_NewRawLeftBehind ==
  /\ FullRunDone
  /\ \E i \in 1..Len(raws) : NewRaw(raws[i]) /\ ~raws[i].processed
  /\ \E j \in 1..Len(leads) : leads[j].lastOutputAt # NONE

\* A run without backlog has exported a newly discovered business.
C39_Exported ==
  /\ FullRunDone
  /\ \A i \in 1..Len(raws) : NewRaw(raws[i])
  /\ \E j \in 1..Len(leads) : leads[j].lastOutputAt # NONE

\* ------------------------------------------------------------------ C40
\* One Refresh run in which no statement throws, as a function of the store:
\* processExpiredCooldowns over the leads getExpiredCooldowns selected, each
\* written from the row as it was selected, then processSignalChanges.
RECURSIVE SweepAll(_, _, _, _)
SweepAll(store, batch, reset, t) ==
  IF batch = <<>> THEN store
  ELSE LET ws == SweepWrites(Head(batch), reset)
       IN SweepAll(ApplyWrites(store, ws, Len(ws), t), Tail(batch), reset, t)

RECURSIVE SignalAll(_, _, _)
SignalAll(store, batch, t) ==
  IF batch = <<>> THEN store
  ELSE LET ws == SignalWrites(Head(batch))
       IN SignalAll(ApplyWrites(store, ws, Len(ws), t), Tail(batch), t)

RefreshOnce(store, lim, reset, t) ==
  LET swept == SweepAll(store, getExpiredCooldowns(store, lim, t), reset, t)
  IN SignalAll(swept, SignalSelect(swept, lim, t), t)

RefreshLimits == {1, 2}

\* the lead stages over two staged businesses with no statement throwing, and
\* Refresh runs whose limit covers both leads or one of them
NextSweep ==
  \/ Tick
  \/ StartCollect(FailSoftLimits)
  \/ CollectRecord({})
  \/ StartFilter(FailSoftLimits, {filters})
  \/ FilterRecord({})
  \/ StartEnrich(FailSoftLimits)
  \/ EnrichRecord(PipeOutcomes, {})
  \/ StartScore(FailSoftLimits, {scoring})
  \/ ScoreRecord({})
  \/ StartOutput(FailSoftLimits, {minScore})
  \/ OutputRecord({})
  \/ StartRefresh(RefreshLimits, PipeResets)
  \/ RefreshCooldownRecord({})
  \/ RefreshSignalSelect
  \/ RefreshSignalRecord({})
  \/ Complete

SpecSweep == FailSoftInit /\ [][NextSweep]_vars

\* the part of a lead's state the claim is about
SweepState(lead) ==
  <<lead.status, lead.cooldownUntil, lead.excludedReason, lead.activeAngles,
    lead.exhaustedAngles>>

SweepStates(store) == [i \in 1..Len(store) |-> SweepState(store[i])]

BatchIds(batch) == {batch[i].leadId : i \in 1..Len(batch)}

C40_TwoExpired ==
  /\ BetweenRuns
  /\ Len(getExpiredCooldowns(leads, 2, now)) = 2
  /\ SweepStates(RefreshOnce(leads, 1, FALSE, now)) # SweepStates(leads)

====
